---- MODULE Spec2Model ----
(***************************************************************************)
(* A model of the FRI polynomial-commitment core of Plonky3:               *)
(*   - the parallel radix-2 DIT engine (dft/src/radix_2_dit_parallel.rs),  *)
(*   - the two-adic FRI PCS (fri/src/two_adic_pcs.rs),                     *)
(*   - circle-domain folding (circle/src/folding.rs).                      *)
(* Field arithmetic is exact arithmetic in small prime fields of the same  *)
(* shape as the ones the code is instantiated with: a two-adic prime field *)
(* for Val (and for the challenge field, taken as the degree-1 extension), *)
(* and a Mersenne prime field with its complex extension for the circle.   *)
(* Vectors are functions on 0..n-1, as the code indexes them.              *)
(***************************************************************************)
EXTENDS Integers, Sequences, FiniteSets, TLC

\* A vector built once and then read many times: the explicit function
Vec(f) == f @@ << >>

----------------------------------------------------------------------------
(* The two-adic field Val: F_P, P = 3 * 2^12 + 1.                          *)

P == 3 * 4096 + 1

\* Val::generator(): a generator of the multiplicative group of F_P
Generator == 11

Add(a, b) == (a + b) % P
Sub(a, b) == (a - b + P) % P
Mul(a, b) == (a * b) % P

RECURSIVE Exp(_, _)
\* exp_u64: square and multiply, from the lowest bit of the exponent up: the base
\* is squared at every bit and multiplied into the product at every set bit
\* (the base is looked at before it is squared again: a base of one stays one)
Exp(a, e) ==
    IF e = 0 \/ a = 1 THEN 1
    ELSE IF e % 2 = 1 THEN Mul(a, Exp(Mul(a, a), e \div 2))
    ELSE Exp(Mul(a, a), e \div 2)

\* Field::inverse (0 has no inverse; the code's callers never invert 0)
Inv(a) == Exp(a, P - 2)

Div(a, b) == Mul(a, Inv(b))

RECURSIVE Pow2(_)
Pow2(n) == IF n = 0 THEN 1 ELSE 2 * Pow2(n - 1)

\* exp_power_of_2: a^(2^k)
ExpPowerOf2(a, k) == Exp(a, Pow2(k))

\* TwoAdicField::two_adic_generator(bits): a generator of the subgroup of order 2^bits
TwoAdicGenerator(bits) == Exp(Generator, (P - 1) \div Pow2(bits))

----------------------------------------------------------------------------
(* p3_util                                                                 *)

RECURSIVE ReverseBitsLen(_, _)
\* reverse_bits_len(x, bits): the low `bits` bits of x, reversed
ReverseBitsLen(x, bits) ==
    IF bits = 0 THEN 0
    ELSE (x % 2) * Pow2(bits - 1) + ReverseBitsLen(x \div 2, bits - 1)

RECURSIVE Log2(_)
Log2(n) == IF n <= 1 THEN 0 ELSE 1 + Log2(n \div 2)

IsPowerOfTwo(n) == n >= 1 /\ Pow2(Log2(n)) = n

\* log2_strict_usize: panics unless n is a power of two
Log2Strict(n) == Log2(n)

\* reverse_slice_index_bits on a vector of length n = 2^k
ReverseSliceIndexBits(v, n) ==
    LET k == Log2Strict(n)
    IN Vec([i \in 0..(n - 1) |-> v[ReverseBitsLen(i, k)]])

----------------------------------------------------------------------------
(* Row-major matrices: [width, height, values], values on 0..width*height-1 *)

Mat(w, h, vals) == [width |-> w, height |-> h, values |-> vals]

\* reverse_matrix_index_bits: permute the rows by bit reversal, in place
ReverseMatrixIndexBits(vals, w, h) ==
    LET k == Log2Strict(h)
    IN Vec([e \in 0..(w * h - 1) |-> vals[ReverseBitsLen(e \div w, k) * w + (e % w)]])

\* divide_by_height: scale every entry by 1/h
DivideByHeight(vals, w, h) ==
    LET hinv == Inv(h % P)
    IN Vec([e \in 0..(w * h - 1) |-> Mul(vals[e], hinv)])

----------------------------------------------------------------------------
(* dft/src/butterflies.rs and the butterfly layers                         *)

\* DitButterfly(twiddle).apply(x1, x2) = (x1 + x2*twiddle, x1 - x2*twiddle)
DitButterflyLo(x1, x2, twiddle) == Add(x1, Mul(x2, twiddle))
DitButterflyHi(x1, x2, twiddle) == Sub(x1, Mul(x2, twiddle))

\* A twiddle iterator: [n |-> number of items, at |-> the items, on 0..n-1]
Iter(n, f) == [n |-> n, at |-> f]

\* slice.iter().copied().step_by(step)
StepBy(it, step) ==
    LET n == (it.n + step - 1) \div step
    IN Iter(n, Vec([k \in 0..(n - 1) |-> it.at[k * step]]))

\* slice[from..].iter().copied()
SkipTo(it, from) ==
    Iter(it.n - from, Vec([k \in 0..(it.n - from - 1) |-> it.at[from + k]]))

\* dit_layer: one layer of a DIT butterfly network on a submatrix of `rows` rows.
\* Blocks of 2^(layer+1) rows; row k of the low half is paired with row k of
\* the high half and twiddle k (izip stops at the shortest of the three).
DitLayer(vals, w, rows, layer, tw) ==
    LET half_block_size == Pow2(layer)
        block_size == half_block_size * 2
    IN Vec([e \in 0..(w * rows - 1) |->
          LET r == (e \div w) % block_size
          IN IF r < half_block_size
             THEN IF r < tw.n
                  THEN DitButterflyLo(vals[e], vals[e + half_block_size * w], tw.at[r])
                  ELSE vals[e]
             ELSE IF r - half_block_size < tw.n
                  THEN DitButterflyHi(vals[e - half_block_size * w], vals[e],
                                      tw.at[r - half_block_size])
                  ELSE vals[e]])

\* dit_layer_rev: like dit_layer with matrix and twiddles in bit-reversed order:
\* blocks of 2^(layer_rev+1) rows, one twiddle per block (zip stops at the shortest).
DitLayerRev(vals, w, rows, log_h, layer, tw) ==
    LET layer_rev == log_h - 1 - layer
        half_block_size == Pow2(layer_rev)
        block_size == half_block_size * 2
    IN Vec([e \in 0..(w * rows - 1) |->
          LET row == e \div w
              block == row \div block_size
              r == row % block_size
          IN IF block >= tw.n THEN vals[e]
             ELSE IF r < half_block_size
                  THEN DitButterflyLo(vals[e], vals[e + half_block_size * w], tw.at[block])
                  ELSE DitButterflyHi(vals[e - half_block_size * w], vals[e], tw.at[block])])

\* par_row_chunks_exact_mut(chunk_rows): the submatrix of chunk `thread`
RowChunk(vals, w, chunk_rows, thread) ==
    Vec([e \in 0..(w * chunk_rows - 1) |-> vals[thread * chunk_rows * w + e]])

\* the matrix made of the processed chunks, chunk by chunk
JoinChunks(chunks, w, chunk_rows, h) ==
    Vec([e \in 0..(w * h - 1) |-> chunks[e \div (w * chunk_rows)][e % (w * chunk_rows)]])

RECURSIVE ParDitLayerChunk(_, _, _, _, _, _, _)
\* the body of par_dit_layer's for_each: layers layer..mid-1 on one chunk
ParDitLayerChunk(sub, w, rows, log_h, layer, mid, twiddles) ==
    IF layer >= mid THEN sub
    ELSE LET layer_rev == log_h - 1 - layer
             layer_pow == Pow2(layer_rev)
         IN ParDitLayerChunk(DitLayer(sub, w, rows, layer, StepBy(twiddles, layer_pow)),
                             w, rows, log_h, layer + 1, mid, twiddles)

\* par_dit_layer: the first half of the network, on row chunks of 2^mid rows
ParDitLayer(vals, w, h, mid, twiddles) ==
    LET log_h == Log2Strict(h)
        chunk_rows == Pow2(mid)
        chunks == Vec([t \in 0..((h \div chunk_rows) - 1) |->
                     ParDitLayerChunk(RowChunk(vals, w, chunk_rows, t), w, chunk_rows,
                                      log_h, 0, mid, twiddles)])
    IN JoinChunks(chunks, w, chunk_rows, h)

RECURSIVE ParDitLayerRevChunk(_, _, _, _, _, _, _, _)
\* the body of par_dit_layer_rev's for_each: layers layer..log_h-1 on chunk `thread`
ParDitLayerRevChunk(sub, w, rows, log_h, layer, mid, thread, twiddles_rev) ==
    IF layer >= log_h THEN sub
    ELSE LET first_block == thread * Pow2(layer - mid)
         IN ParDitLayerRevChunk(
                DitLayerRev(sub, w, rows, log_h, layer, SkipTo(twiddles_rev, first_block)),
                w, rows, log_h, layer + 1, mid, thread, twiddles_rev)

\* par_dit_layer_rev: the second half, on row chunks of 2^(log_h - mid) rows
ParDitLayerRev(vals, w, h, mid, twiddles_rev) ==
    LET log_h == Log2Strict(h)
        chunk_rows == Pow2(log_h - mid)
        chunks == Vec([t \in 0..((h \div chunk_rows) - 1) |->
                     ParDitLayerRevChunk(RowChunk(vals, w, chunk_rows, t), w, chunk_rows,
                                         log_h, mid, mid, t, twiddles_rev)])
    IN JoinChunks(chunks, w, chunk_rows, h)

----------------------------------------------------------------------------
(* Twiddle tables                                                          *)

\* root.powers().take(n)
Powers(base, current, n) == Vec([k \in 0..(n - 1) |-> Mul(current, Exp(base, k))])

\* compute_twiddles with the second vector left in natural order
compute_twiddles_unreversed(log_h) ==
    LET half_h == Pow2(log_h) \div 2
        root == TwoAdicGenerator(log_h)
        twiddles == Powers(root, 1, half_h)
    IN [twiddles |-> Iter(half_h, twiddles),
        bit_reversed_twiddles |-> Iter(half_h, twiddles)]

\* compute_twiddles: VectorPair of the first h/2 powers of the root of unity
compute_twiddles(log_h) ==
    LET half_h == Pow2(log_h) \div 2
        root == TwoAdicGenerator(log_h)
        twiddles == Powers(root, 1, half_h)
    IN [twiddles |-> Iter(half_h, twiddles),
        bit_reversed_twiddles |-> Iter(half_h, ReverseSliceIndexBits(twiddles, half_h))]

\* compute_inverse_twiddles: the same with the inverse root
compute_inverse_twiddles(log_h) ==
    LET half_h == Pow2(log_h) \div 2
        root_inv == Inv(TwoAdicGenerator(log_h))
        twiddles == Powers(root_inv, 1, half_h)
    IN [twiddles |-> Iter(half_h, twiddles),
        bit_reversed_twiddles |-> Iter(half_h, ReverseSliceIndexBits(twiddles, half_h))]

\* compute_coset_twiddles with the layer at `mid` left in natural order
compute_coset_twiddles_off_by_one(log_h, shift) ==
    LET mid == log_h \div 2
        h == Pow2(log_h)
        root == TwoAdicGenerator(log_h)
    IN Vec([layer \in 0..(log_h - 1) |->
          LET shift_power == ExpPowerOf2(shift, layer)
              n == h \div Pow2(layer + 1)
              twiddles == Powers(ExpPowerOf2(root, layer), shift_power, n)
              layer_rev == log_h - 1 - layer
          IN IF layer_rev > mid
             THEN Iter(n, ReverseSliceIndexBits(twiddles, n))
             ELSE Iter(n, twiddles)])

\* compute_coset_twiddles: per layer, the powers root^(2^layer * k) * shift^(2^layer),
\* k < h >> (layer+1), bit-reversed when the layer is used by the second half
compute_coset_twiddles(log_h, shift) ==
    LET mid == log_h \div 2
        h == Pow2(log_h)
        root == TwoAdicGenerator(log_h)
    IN Vec([layer \in 0..(log_h - 1) |->
          LET shift_power == ExpPowerOf2(shift, layer)
              n == h \div Pow2(layer + 1)
              twiddles == Powers(ExpPowerOf2(root, layer), shift_power, n)
              layer_rev == log_h - 1 - layer
          IN IF layer_rev >= mid
             THEN Iter(n, ReverseSliceIndexBits(twiddles, n))
             ELSE Iter(n, twiddles)])

----------------------------------------------------------------------------
(* Radix2DitParallel                                                       *)

\* fetch-or-insert: BTreeMap::entry(key).or_insert_with(compute)
EntryOrInsert(cache, key, computed) ==
    IF key \in DOMAIN cache THEN cache ELSE (key :> computed) @@ cache

\* BitReversalPerm::new_view(mat) / RowMajorMatrix::bit_reverse_rows(): the
\* matrix wrapped in a view that presents its rows in bit-reversed order
BitReversedMatrixView(inner) == [inner |-> inner]

\* Matrix::get(r, c) through the view: row r of the view is row bitrev(r) of inner
ViewGet(view, r, c) ==
    view.inner.values[ReverseBitsLen(r, Log2Strict(view.inner.height)) * view.inner.width + c]

\* BitReversedMatrixView::bit_reverse_rows(): unwraps the inner matrix
ViewBitReverseRows(view) == view.inner

\* The transform of dft_batch, lines 112-120: what is left in `mat`
dft_batch_buffer(mat, twiddles) ==
    LET w == mat.width
        h == mat.height
        log_h == Log2Strict(h)
        mid == log_h \div 2
        m1 == ReverseMatrixIndexBits(mat.values, w, h)
        m2 == ParDitLayer(m1, w, h, mid, twiddles.twiddles)
        m3 == ReverseMatrixIndexBits(m2, w, h)
        m4 == ParDitLayerRev(m3, w, h, mid, twiddles.bit_reversed_twiddles)
    IN m4

\* dft_batch(mat): [twiddles |-> the forward cache afterwards, ret |-> the value returned]
dft_batch(fwd, mat) ==
    LET log_h == Log2Strict(mat.height)
        cache == EntryOrInsert(fwd, log_h, compute_twiddles(log_h))
        buf == dft_batch_buffer(mat, cache[log_h])
    IN [twiddles |-> cache,
        ret |-> BitReversedMatrixView(Mat(mat.width, mat.height, buf))]

RECURSIVE CosetDftFirstChunk(_, _, _, _, _, _, _)
\* the body of coset_dft's first for_each: layers layer..mid-1 on one chunk
CosetDftFirstChunk(sub, w, rows, log_h, layer, mid, twiddles) ==
    IF layer >= mid THEN sub
    ELSE LET layer_rev == log_h - 1 - layer
         IN CosetDftFirstChunk(DitLayer(sub, w, rows, layer, twiddles[layer_rev]),
                               w, rows, log_h, layer + 1, mid, twiddles)

RECURSIVE CosetDftSecondChunk(_, _, _, _, _, _, _, _)
\* the body of coset_dft's second for_each: layers layer..log_h-1 on chunk `thread`
CosetDftSecondChunk(sub, w, rows, log_h, layer, mid, thread, twiddles) ==
    IF layer >= log_h THEN sub
    ELSE LET layer_rev == log_h - 1 - layer
             first_block == thread * Pow2(layer - mid)
         IN CosetDftSecondChunk(
                DitLayerRev(sub, w, rows, log_h, layer,
                            SkipTo(twiddles[layer_rev], first_block)),
                w, rows, log_h, layer + 1, mid, thread, twiddles)

\* coset_dft(dft, mat, shift): [coset_twiddles |-> the coset cache afterwards,
\*                              values |-> the matrix afterwards]
coset_dft(coset, vals, w, h, shift) ==
    LET log_h == Log2Strict(h)
        mid == log_h \div 2
        key == <<log_h, shift>>
        cache == EntryOrInsert(coset, key, compute_coset_twiddles(log_h, shift))
        twiddles == cache[key]
        rows1 == Pow2(mid)
        chunks1 == Vec([t \in 0..((h \div rows1) - 1) |->
                      CosetDftFirstChunk(RowChunk(vals, w, rows1, t), w, rows1,
                                         log_h, 0, mid, twiddles)])
        m1 == JoinChunks(chunks1, w, rows1, h)
        m2 == ReverseMatrixIndexBits(m1, w, h)
        rows2 == Pow2(log_h - mid)
        chunks2 == Vec([t \in 0..((h \div rows2) - 1) |->
                      CosetDftSecondChunk(RowChunk(m2, w, rows2, t), w, rows2,
                                          log_h, mid, mid, t, twiddles)])
    IN [coset_twiddles |-> cache, values |-> JoinChunks(chunks2, w, rows2, h)]

\* A slot of reserved capacity that has not been written
Uninit == -1

\* dest.copy_from(first_coset_mat): chunk `chunk` (1-based among the added ones) of
\* the buffer becomes a copy of the first w*h elements
CopyToChunk(buf, n, chunk) ==
    Vec([e \in DOMAIN buf |-> IF e \div n = chunk THEN buf[e % n] ELSE buf[e]])

\* the chunk written back after its transform
WriteChunk(buf, n, chunk, vals) ==
    Vec([e \in DOMAIN buf |-> IF e \div n = chunk THEN vals[e % n] ELSE buf[e]])

\* total_shift of coset coset_idx: g_big^coset_idx * shift
TotalShift(g_big, coset_idx, shift) == Mul(Exp(g_big, coset_idx), shift)

\* one iteration of the loop of lines 171-196: the chunk of coset coset_idx (at the
\* bit-reversed position) is filled with a copy of the first chunk, then
\* transformed in place by coset_dft with total_shift
CosetStep(st, w, h, added_bits, shift, g_big, coset_idx) ==
    LET total_shift == TotalShift(g_big, coset_idx, shift)
        chunk == ReverseBitsLen(coset_idx, added_bits)
        copied == CopyToChunk(st.values, w * h, chunk)
        done == coset_dft(st.coset_twiddles, RowChunk(copied, w, h, chunk), w, h, total_shift)
    IN [values |-> WriteChunk(copied, w * h, chunk, done.values),
        coset_twiddles |-> done.coset_twiddles]

RECURSIVE CosetLoop(_, _, _, _, _, _, _)
\* the loop of lines 171-196 up to and including coset_idx = last
CosetLoop(st, w, h, added_bits, shift, g_big, last) ==
    IF last = 0 THEN st
    ELSE CosetStep(CosetLoop(st, w, h, added_bits, shift, g_big, last - 1),
                   w, h, added_bits, shift, g_big, last)

\* lines 132-169 of coset_lde_batch: the inverse transform without the final
\* un-reversal, the division by h, and the buffer extended by reserved capacity
LdeCoefficients(inv, mat, added_bits) ==
    LET w == mat.width
        h == mat.height
        log_h == Log2Strict(h)
        mid == log_h \div 2
        cache == EntryOrInsert(inv, log_h, compute_inverse_twiddles(log_h))
        twiddles == cache[log_h]
        m1 == ReverseMatrixIndexBits(mat.values, w, h)
        m2 == ParDitLayer(m1, w, h, mid, twiddles.twiddles)
        m3 == ReverseMatrixIndexBits(m2, w, h)
        m4 == ParDitLayerRev(m3, w, h, mid, twiddles.bit_reversed_twiddles)
        coeffs == DivideByHeight(m4, w, h)
        lde_elems == w * (h * Pow2(added_bits))
    IN [inverse_twiddles |-> cache,
        values |-> Vec([e \in 0..(lde_elems - 1) |->
                          IF e < w * h THEN coeffs[e] ELSE Uninit])]

\* lines 198-205: the first coset transformed in place, the length set, the view returned
LdeFirstCoset(st, w, h, added_bits, shift) ==
    LET first == coset_dft(st.coset_twiddles, RowChunk(st.values, w, h, 0), w, h, shift)
    IN [coset_twiddles |-> first.coset_twiddles,
        ret |-> BitReversedMatrixView(
                    Mat(w, h * Pow2(added_bits), WriteChunk(st.values, w * h, 0, first.values)))]

\* lines 198-205 after the loop, with the caches as they are at the return
LdeReturn(inv, last) ==
    [inverse_twiddles |-> inv, coset_twiddles |-> last.coset_twiddles, ret |-> last.ret]

\* lines 171-205 on the buffer of coefficients `start`
LdeCosets(start, coset, w, h, added_bits, shift) ==
    LdeReturn(start.inverse_twiddles,
              LdeFirstCoset(CosetLoop([coset_twiddles |-> coset, values |-> start.values],
                                      w, h, added_bits, shift,
                                      TwoAdicGenerator(Log2Strict(h) + added_bits),
                                      Pow2(added_bits) - 1),
                            w, h, added_bits, shift))

\* coset_lde_batch(mat, added_bits, shift):
\*   [inverse_twiddles, coset_twiddles |-> the caches afterwards, ret |-> the value returned]
coset_lde_batch(inv, coset, mat, added_bits, shift) ==
    LdeCosets(LdeCoefficients(inv, mat, added_bits), coset, mat.width, mat.height,
              added_bits, shift)

----------------------------------------------------------------------------
(* The pieces of the transforms, for following a call step by step         *)

\* a height check that lets 0 pass
HeightIsPowerOfTwoOrZero(h) == h = 0 \/ IsPowerOfTwo(h)

\* log2_strict_usize(h) of lines 104, 134 returns: h is a power of two
HeightIsPowerOfTwo(h) == IsPowerOfTwo(h)

\* a split one layer later
DftMidCeil(log_h) == (log_h + 1) \div 2

\* mid of lines 112, 135, 215
DftMid(log_h) == log_h \div 2

RECURSIVE LayersRun(_, _)
\* how many times the body of `for layer in from..to` runs
LayersRun(from, to) == IF from >= to THEN 0 ELSE 1 + LayersRun(from + 1, to)

\* a table computed whether or not the key is there
OrInsertEager(counts, cache, key) ==
    (key :> (IF key \in DOMAIN counts THEN counts[key] + 1 ELSE 1)) @@ counts

\* or_insert_with(compute): compute runs only when the key is vacant
OrInsertWith(counts, cache, key) ==
    IF key \in DOMAIN cache THEN counts
    ELSE (key :> (IF key \in DOMAIN counts THEN counts[key] + 1 ELSE 1)) @@ counts

\* the chunk of coset coset_idx, not bit-reversed
LdeDestChunkNatural(coset_idx, added_bits) == coset_idx

\* lines 173-174: the chunk of coset coset_idx among all chunks of the buffer
LdeDestChunk(coset_idx, added_bits) == ReverseBitsLen(coset_idx, added_bits)

\* reserve_exact(additional): room for at least len + additional elements
ReserveExact(cap, len, additional) ==
    IF cap - len >= additional THEN cap ELSE len + additional

\* the first half of coset_dft, lines 224-232
CosetDftFirstHalf(vals, w, h, twiddles) ==
    LET log_h == Log2Strict(h)
        mid == DftMid(log_h)
        rows1 == Pow2(mid)
        chunks1 == Vec([t \in 0..((h \div rows1) - 1) |->
                      CosetDftFirstChunk(RowChunk(vals, w, rows1, t), w, rows1,
                                         log_h, 0, mid, twiddles)])
    IN JoinChunks(chunks1, w, rows1, h)

\* the second half of coset_dft, lines 238-253
CosetDftSecondHalf(vals, w, h, twiddles) ==
    LET log_h == Log2Strict(h)
        mid == DftMid(log_h)
        rows2 == Pow2(log_h - mid)
        chunks2 == Vec([t \in 0..((h \div rows2) - 1) |->
                      CosetDftSecondChunk(RowChunk(vals, w, rows2, t), w, rows2,
                                          log_h, mid, mid, t, twiddles)])
    IN JoinChunks(chunks2, w, rows2, h)

----------------------------------------------------------------------------
(* Naive evaluation, the reference the transforms are compared with        *)

RECURSIVE EvalPoly(_, _, _, _, _, _)
\* sum over lo <= j < hi of vals[j*w + c] * x^(j - lo): column c of a coefficient
\* matrix as a polynomial, evaluated at x (Horner's rule on runs of 16, the
\* runs combined by halving)
EvalPoly(vals, w, c, lo, hi, x) ==
    IF lo >= hi THEN 0
    ELSE IF hi - lo <= 16
         THEN Add(vals[lo * w + c], Mul(x, EvalPoly(vals, w, c, lo + 1, hi, x)))
         ELSE LET mid == (lo + hi) \div 2
              IN Add(EvalPoly(vals, w, c, lo, mid, x),
                     Mul(Exp(x, mid - lo), EvalPoly(vals, w, c, mid, hi, x)))

\* the evaluations of every column of a coefficient matrix over the subgroup of
\* order h, in natural order: row i is the evaluation at w^i
NaiveDft(coeffs) ==
    LET w == coeffs.width
        h == coeffs.height
        root == TwoAdicGenerator(Log2Strict(h))
    IN Mat(w, h, Vec([e \in 0..(w * h - 1) |->
                        EvalPoly(coeffs.values, w, e % w, 0, h, Exp(root, e \div w))]))

----------------------------------------------------------------------------
(* TwoAdicFriPcs: pure parts. FC::Challenge is taken as Val itself (the      *)
(* degree-1 extension), so from_base is the identity.                       *)

\* TwoAdicFriPcs::coset_shift(): Val::generator()
PcsCosetShift == Generator

\* a commit that takes the PCS's own shift whatever coset the input is on
CommitShiftUndivided(coset_shift) == PcsCosetShift

\* let shift = self.coset_shift() / coset_shift  (line 121)
CommitShift(coset_shift) == Div(PcsCosetShift, coset_shift)

\* a commit that keeps the LDE in natural order
CommittedLdeNatural(view) ==
    Mat(view.inner.width, view.inner.height,
        Vec([e \in 0..(view.inner.width * view.inner.height - 1) |->
               ViewGet(view, e \div view.inner.width, e % view.inner.width)]))

\* lines 128-131: .coset_lde_batch(..).bit_reverse_rows().to_row_major_matrix():
\* the view is unwrapped, the bit-reversed buffer is what is committed
CommittedLde(view) == ViewBitReverseRows(view)

\* the LDE `r` of one polynomial joins those before it
CommitLdesPush(ldes, r) ==
    [ldes |-> Append(ldes, CommittedLde(r.ret)),
     inverse_twiddles |-> r.inverse_twiddles,
     coset_twiddles |-> r.coset_twiddles]

\* one iteration of the map of lines 122-134, after the iterations `before`
CommitLde(before, poly, log_blowup, shift) ==
    CommitLdesPush(before.ldes,
                   coset_lde_batch(before.inverse_twiddles, before.coset_twiddles,
                                   poly, log_blowup, shift))

RECURSIVE CommitLdes(_, _, _, _, _, _)
\* lines 122-134: the coset LDE of polynomials 1..n, in input order, the engine's
\* caches threaded through: [inverse_twiddles, coset_twiddles, ldes]
CommitLdes(inv, coset, polynomials, log_blowup, shift, n) ==
    IF n = 0 THEN [inverse_twiddles |-> inv, coset_twiddles |-> coset, ldes |-> << >>]
    ELSE CommitLde(CommitLdes(inv, coset, polynomials, log_blowup, shift, n - 1),
                   polynomials[n], log_blowup, shift)

\* DirectMmcs::commit(matrices): (commitment, prover data). The commitment binds
\* the matrices (two batches have the same commitment only if they are equal);
\* the prover data retains them.
MmcsCommit(matrices) ==
    [commitment |-> [root |-> matrices], data |-> [matrices |-> matrices]]

\* DirectMmcs::get_matrices(prover_data)
MmcsGetMatrices(data) == data.matrices

RECURSIVE MaxHeight(_, _)
MaxHeight(matrices, n) ==
    IF n = 0 THEN 0
    ELSE LET rest == MaxHeight(matrices, n - 1)
         IN IF matrices[n].height > rest THEN matrices[n].height ELSE rest

\* row r of a matrix, as a sequence
MatRow(mat, r) == [c \in 1..mat.width |-> mat.values[r * mat.width + (c - 1)]]

\* DirectMmcs::open_batch(index, prover_data): per matrix the row at
\* index >> (log_max_height - log_height), log_max_height that of the batch, and
\* the inclusion proof. An index beyond the batch's tallest matrix has no row
\* (what the backend does with it is its own affair).
MmcsOpenBatch(index, data) ==
    LET ms == data.matrices
        log_max == Log2Strict(MaxHeight(ms, Len(ms)))
    IN [opened_values |->
            [j \in 1..Len(ms) |->
                LET r == index \div Pow2(log_max - Log2Strict(ms[j].height))
                IN IF r < ms[j].height THEN MatRow(ms[j], r) ELSE << >>],
        opening_proof |-> [index |-> index, root |-> ms]]

\* cyclic_subgroup_coset_known_order(g_{log_height}, coset_shift, height), then
\* reverse_slice_index_bits: entry i is shift * g^bitrev(i)   (lines 175-181)
SubgroupBitRev(log_height, coset_shift) ==
    LET height == Pow2(log_height)
        g == TwoAdicGenerator(log_height)
    IN ReverseSliceIndexBits(Powers(g, coset_shift, height), height)

\* lines 183-193: row p of inv_denoms is 1/(x - z_p) for every x of the subgroup
\* (batch_multiplicative_inverse inverts entry by entry)
InvDenoms(subgroup, height, points_for_mat) ==
    [p \in 1..Len(points_for_mat) |->
        Vec([i \in 0..(height - 1) |-> Inv(Sub(subgroup[i], points_for_mat[p]))])]

\* mat.split_rows(mat.height() >> log_blowup).0
LowCoset(mat, log_blowup) ==
    LET low == mat.height \div Pow2(log_blowup)
    IN Mat(mat.width, low, Vec([e \in 0..(mat.width * low - 1) |-> mat.values[e]]))

RECURSIVE SumTo(_, _)
\* f[0] + ... + f[n-1] in the field
SumTo(f, n) == IF n = 0 THEN 0 ELSE Add(SumTo(f, n - 1), f[n - 1])

\* p3_interpolation::interpolate_coset(coset_evals, shift, point): the barycentric
\* formula on the coset shift*<g>, one value per column:
\*   (z^h - s^h) / (h * s^(h-1)) * sum_i g^i * y_i / (z - s*g^i)
interpolate_coset(view, shift, point) ==
    LET w == view.inner.width
        h == view.inner.height
        g == TwoAdicGenerator(Log2Strict(h))
        zerofier == Sub(Exp(point, h), Exp(shift, h))
        denominator == Mul(h % P, Exp(shift, h - 1))
        scale == Mul(zerofier, Inv(denominator))
    IN [c \in 1..w |->
          Mul(scale,
              SumTo([i \in 0..(h - 1) |->
                        Mul(ViewGet(view, i, c - 1),
                            Mul(Exp(g, i), Inv(Sub(point, Mul(shift, Exp(g, i))))))],
                    h))]

\* lines 198-207: the values of a committed matrix at `point`
OpenedAt(mat, log_blowup, point) ==
    interpolate_coset(BitReversedMatrixView(LowCoset(mat, log_blowup)), PcsCosetShift, point)

\* powers that start one entry late
get_cached_powers_late(power, cache, start, count) ==
    [cache |-> cache \o [i \in 1..(start + count + 1 - Len(cache)) |->
                            Mul(cache[Len(cache)], Exp(power, i))],
     pows |-> [i \in 1..count |-> Exp(power, start + i)]]

\* a loop that pushes while len <= n: one power more than asked for
get_cached_powers_push_over(power, cache, n) ==
    IF Len(cache) > n THEN cache
    ELSE cache \o [i \in 1..(n + 1 - Len(cache)) |->
                     Mul(cache[Len(cache)], Exp(power, i))]

RECURSIVE get_cached_powers_push(_, _, _)
\* the while loop of get_cached_powers: push cache.last() * power until len >= n
get_cached_powers_push(power, cache, n) ==
    IF Len(cache) >= n THEN cache
    ELSE get_cached_powers_push(power, Append(cache, Mul(cache[Len(cache)], power)), n)

\* get_cached_powers(power, cache, start, count): [cache |-> the cache afterwards,
\*   pows |-> &cache[start..start+count]]   (entry i of the Vec is cache[i + 1] here)
get_cached_powers(power, cache, start, count) ==
    LET grown == get_cached_powers_push(power, cache, start + count)
    IN [cache |-> grown, pows |-> SubSeq(grown, start + 1, start + count)]

RECURSIVE ReduceRow(_, _, _, _, _, _, _)
\* lines 224-230, columns 1..n of one row: the row's reduced opening after
\*   *reduced_opening += alpha_pow * (p_at_x - p_at_point) * inv_denom
ReduceRow(acc, mat, r, values, alpha_pows, inv_denom, n) ==
    IF n = 0 THEN acc
    ELSE Add(ReduceRow(acc, mat, r, values, alpha_pows, inv_denom, n - 1),
             Mul(Mul(alpha_pows[n], Sub(mat.values[r * mat.width + (n - 1)], values[n])),
                 inv_denom))

\* lines 216-232: the reduced-opening vector of the matrix's log-height after the
\* openings of `mat` at one point have been added, row by row
ReduceOpenings(reduced, mat, values, alpha_pows, inv_denoms_row) ==
    Vec([r \in 0..(mat.height - 1) |->
           ReduceRow(reduced[r], mat, r, values, alpha_pows, inv_denoms_row[r], mat.width)])

\* a verifier that accepts nothing
verify_rejecting(commits_and_points, dims, values, proof, challenger) == "Err"

\* verify_multi_batches, lines 267-277: the body is `Ok(())`
verify_multi_batches(commits_and_points, dims, values, proof, challenger) == "Ok"

----------------------------------------------------------------------------
(* Circle folding. The base field is a Mersenne field F_q, q = 2^13 - 1,    *)
(* whose circle group x^2 + y^2 = 1 has order 2^13; EF is taken as F.       *)

CircleP == 8 * 1024 - 1

MAdd(a, b) == (a + b) % CircleP
MSub(a, b) == (a + CircleP - b) % CircleP
MMul(a, b) == (a * b) % CircleP

RECURSIVE MExp(_, _)
MExp(a, n) ==
    IF n = 0 \/ a = 1 THEN 1
    ELSE IF n % 2 = 0 THEN MExp(MMul(a, a), n \div 2)
    ELSE MMul(a, MExp(MMul(a, a), n \div 2))

MInv(a) == MExp(a, CircleP - 2)

\* Field::halve
Halve(a) == MMul(a, MInv(2))

\* Complex<F>: [real, imag] with i^2 = -1
Complex(re, im) == [real |-> re, imag |-> im]
CMul(a, b) ==
    Complex(MSub(MMul(a.real, b.real), MMul(a.imag, b.imag)),
            MAdd(MMul(a.real, b.imag), MMul(a.imag, b.real)))
\* a / b = a * conj(b) / norm(b)
CDiv(a, b) ==
    LET n == MInv(MAdd(MMul(b.real, b.real), MMul(b.imag, b.imag)))
    IN CMul(a, Complex(MMul(b.real, n), MMul(MSub(0, b.imag), n)))

RECURSIVE CExp(_, _)
\* exp_u64
CExp(a, n) ==
    IF n = 0 \/ a = Complex(1, 0) THEN Complex(1, 0)
    ELSE IF n % 2 = 0 THEN CExp(CMul(a, a), n \div 2)
    ELSE CMul(a, CExp(CMul(a, a), n \div 2))

\* ComplexExtendable: CIRCLE_TWO_ADICITY and the generator of the circle group
CircleTwoAdicity == Log2Strict(CircleP + 1)
CircleGenerator == Complex(2, 181)

\* F::circle_two_adic_generator(bits): an element of order 2^bits
circle_two_adic_generator(bits) ==
    CExp(CircleGenerator, Pow2(CircleTwoAdicity - bits))

\* CircleDomain::standard(log_n): the domain of size 2^log_n with shift
\* circle_two_adic_generator(log_n + 1)
CircleDomainStandard(log_n) ==
    [log_n |-> log_n, shift |-> circle_two_adic_generator(log_n + 1)]

\* CircleDomain::points(): the twin cosets shift * <g> and (g / shift) * <g>,
\* g of order 2^(log_n - 1), each iterate(start, |p| p * g), interleaved;
\* CirclePoint(domain, i) is entry i (from 0)
CirclePoint(domain, i) ==
    LET g == circle_two_adic_generator(domain.log_n - 1)
    IN IF i % 2 = 0
       THEN CMul(domain.shift, CExp(g, i \div 2))
       ELSE CMul(CDiv(g, domain.shift), CExp(g, i \div 2))

RECURSIVE CircleBitrevXorDown(_, _, _)
\* the loop run from the high bit down, as circle_bitrev_idx_inv runs it
CircleBitrevXorDown(idx, i, bits) ==
    IF i >= bits THEN idx
    ELSE LET j == bits - 1 - i
         IN IF (idx \div Pow2(j)) % 2 = 1
            THEN CircleBitrevXorDown(idx - (idx % Pow2(j)) + (Pow2(j) - 1 - (idx % Pow2(j))),
                                     i + 1, bits)
            ELSE CircleBitrevXorDown(idx, i + 1, bits)

RECURSIVE CircleBitrevXor(_, _, _)
\* the loop of lines 118-122 from i on
CircleBitrevXor(idx, i, bits) ==
    IF i >= bits THEN idx
    ELSE IF (idx \div Pow2(i)) % 2 = 1
         THEN CircleBitrevXor(idx - (idx % Pow2(i)) + (Pow2(i) - 1 - (idx % Pow2(i))),
                              i + 1, bits)
         ELSE CircleBitrevXor(idx, i + 1, bits)

\* a circle bit-reversal that is the plain bit-reversal
circle_bitrev_idx_plain(idx, bits) == ReverseBitsLen(idx, bits)

\* circle_bitrev_idx(idx, bits), lines 116-124
circle_bitrev_idx(idx, bits) == CircleBitrevXor(ReverseBitsLen(idx, bits), 0, bits)

\* circle_bitrev_permute(xs), xs a vector indexed from 0 of length n
circle_bitrev_permute(xs, n) ==
    [i \in 0..(n - 1) |-> xs[circle_bitrev_idx(i, Log2Strict(n))]]

\* a fold that does not halve
FoldPairUnhalved(lo, hi, beta, t) ==
    MAdd(MAdd(lo, hi), MMul(beta, MMul(MSub(lo, hi), t)))

\* the closure of fold, lines 104-109
FoldPair(lo, hi, beta, t) ==
    Halve(MAdd(MAdd(lo, hi), MMul(beta, MMul(MSub(lo, hi), t))))

\* xs.len() of a vector indexed from 0
VecLen(xs) == Cardinality(DOMAIN xs)

\* the length of a.zip(b), of iter.take(n): the shorter of the two
ZipLen(a, b) == IF a <= b THEN a ELSE b

\* fold(evals, beta, twiddles): evals the `height` rows of a width-2 matrix;
\* rows().zip(twiddles) ends with the shorter of the two
fold(evals, height, beta, twiddles) ==
    [i \in 0..(ZipLen(height, VecLen(twiddles)) - 1) |->
        FoldPair(evals[2 * i], evals[2 * i + 1], beta, twiddles[i])]

\* fold_bivariate(evals, beta), lines 17-32
fold_bivariate(evals, height, beta) ==
    LET domain == CircleDomainStandard(Log2Strict(height) + 1)
        \* domain.points().take(height), imag(), batch_multiplicative_inverse
        twiddles == [i \in 0..(ZipLen(height, Pow2(domain.log_n)) - 1) |->
                        MInv(CirclePoint(domain, i).imag)]
    IN fold(evals, height, beta, circle_bitrev_permute(twiddles, VecLen(twiddles)))

\* fold_matrix(beta, m), lines 62-74
fold_matrix(beta, m, height) ==
    LET domain == CircleDomainStandard(Log2Strict(height) + 2)
        \* domain.points().take(height), real(), batch_multiplicative_inverse
        twiddles == [i \in 0..(ZipLen(height, Pow2(domain.log_n)) - 1) |->
                        MInv(CirclePoint(domain, i).real)]
    IN fold(m, height, beta, circle_bitrev_permute(twiddles, VecLen(twiddles)))

\* a twiddle taken one generator short
FoldRowTwiddleShort(index, log_height) ==
    MInv(CMul(circle_two_adic_generator(log_height + 2),
              CExp(circle_two_adic_generator(log_height + 2),
                   circle_bitrev_idx(index, log_height))).real)

\* lines 53-56 of fold_row: t
FoldRowTwiddle(index, log_height) ==
    LET shift == circle_two_adic_generator(log_height + 3)
        g == circle_two_adic_generator(log_height + 2)
        orig_idx == circle_bitrev_idx(index, log_height)
    IN MInv(CMul(shift, CExp(g, orig_idx)).real)

\* fold_row(index, log_height, beta, evals), lines 49-61; evals = <<lo, hi>>
fold_row(index, log_height, beta, evals) ==
    LET t == FoldRowTwiddle(index, log_height)
        sum == MAdd(evals[1], evals[2])
        diff == MMul(MSub(evals[1], evals[2]), t)
    IN Halve(MAdd(sum, MMul(beta, diff)))

\* x -> 2x^2 - 1: the x coordinate of the square of a point
CircleDouble(x) == MSub(MMul(2, MMul(x, x)), 1)

RECURSIVE CircleV(_, _)
\* x, 2x^2 - 1, 2(2x^2 - 1)^2 - 1, ...: the k-th doubling of the x coordinate
CircleV(k, x) == IF k = 0 THEN x ELSE CircleV(k - 1, CircleDouble(x))

RECURSIVE CircleEval(_, _, _, _)
\* the polynomial with coefficients coeffs[lo .. lo + 2^bits - 1] in the circle
\* basis (bit 0 of the index: y; bit k >= 1: the (k-1)-th doubling of x) at point p
CircleEval(coeffs, lo, bits, p) ==
    IF bits = 0 THEN coeffs[lo]
    ELSE MAdd(CircleEval(coeffs, lo, bits - 1, p),
              MMul(IF bits = 1 THEN p.imag ELSE CircleV(bits - 2, p.real),
                   CircleEval(coeffs, lo + Pow2(bits - 1), bits - 1, p)))

\* Cfft::lde(evals, standard(log_n), standard(log_n + log_blowup)): the values
\* over the larger domain of the polynomial of the first 2^log_n basis functions
\* that the evaluations determine, given here by its coefficients
CircleLde(coeffs, log_n, log_blowup) ==
    LET domain == CircleDomainStandard(log_n + log_blowup)
    IN Vec([i \in 0..(Pow2(log_n + log_blowup) - 1) |->
              CircleEval(coeffs, 0, log_n, CirclePoint(domain, i))])

----------------------------------------------------------------------------
(* Bounds of the model                                                     *)

\* heights of the matrices given to the engine: 2^0 .. 2^MaxLogN
MaxLogN == 6
\* added_bits of coset_lde_batch: 0 .. MaxAddedBits
MaxAddedBits == 3
\* the workloads tried per size: seeds 0 .. MaxSeed
MaxSeed == 1

\* the matrix width of workload `seed`
SeedWidth(seed) == 1 + (seed % 2)
\* the coset shift of workload `seed` (nonzero): the generator, 1, then others
SeedShift(seed) == IF seed = 0 THEN Generator ELSE Exp(Generator, 2 * (seed - 1))
\* the coefficients of workload `seed`: dense, no two columns alike
SeedValue(seed, e) == ((e + 1) * (e + seed + 2) * (2 * seed + 7) + 3 * seed + 5) % P

Workload(log_n, added_bits, seed) ==
    LET w == SeedWidth(seed)
        h == Pow2(log_n)
        coeffs == Mat(w, h, Vec([e \in 0..(w * h - 1) |-> SeedValue(seed, e)]))
    IN [coeffs |-> coeffs, evals |-> NaiveDft(coeffs),
        added_bits |-> added_bits, shift |-> SeedShift(seed)]

\* FriConfig::log_blowup(): 1 .. MaxLogBlowup
MaxLogBlowup == 1
\* batches committed and opened together: 1 .. MaxBatches
MaxBatches == 2
\* FriConfig::num_queries(): 1 .. MaxQueries
MaxQueries == 2

\* the batches tried (a run takes consecutive ones): per matrix the log-degree, the width and the number of
\* points it is opened at; per batch the coset_shift given to
\* commit_shifted_batches (1 is commit_batches). One matrix; two of equal
\* degree; degrees ascending, the larger opened at two points; degrees
\* descending; a shifted batch with a matrix opened at two points.
BatchShapes ==
    << [coset_shift |-> 1, mats |-> << [log_degree |-> 1, width |-> 2, points |-> 1] >>],
       [coset_shift |-> 1, mats |-> << [log_degree |-> 2, width |-> 1, points |-> 1],
                                       [log_degree |-> 2, width |-> 2, points |-> 1] >>],
       [coset_shift |-> 1, mats |-> << [log_degree |-> 1, width |-> 1, points |-> 1],
                                       [log_degree |-> 2, width |-> 2, points |-> 2] >>],
       [coset_shift |-> 1, mats |-> << [log_degree |-> 2, width |-> 2, points |-> 1],
                                       [log_degree |-> 1, width |-> 1, points |-> 1] >>],
       [coset_shift |-> 3, mats |-> << [log_degree |-> 1, width |-> 1, points |-> 1],
                                       [log_degree |-> 1, width |-> 2, points |-> 2] >>] >>

\* the opening points tried; none lies on a two-adic coset of the generator
PointMenu == << 7, 9, 4, 20 >>

\* a point is outside every evaluation domain generator * <g>
OutOfDomain(z) == Exp(Div(z, PcsCosetShift), (P - 1) \div 3) # 1

\* the batch combination challenges the challenger may answer
Alphas == {3, 5}

\* batch b of a workload: for each matrix its coefficients, the evaluations given
\* to commit, and the points of the opening
PcsBatch(b, shape) ==
    [coset_shift |-> shape.coset_shift,
     polys |-> [m \in 1..Len(shape.mats) |->
                  LET coeffs == Mat(shape.mats[m].width, Pow2(shape.mats[m].log_degree),
                                    Vec([e \in 0..(shape.mats[m].width
                                                   * Pow2(shape.mats[m].log_degree) - 1) |->
                                           SeedValue(2 * b + m, e)]))
                  IN [coeffs |-> coeffs, evals |-> NaiveDft(coeffs)]],
     points |-> [m \in 1..Len(shape.mats) |->
                  [p \in 1..shape.mats[m].points |->
                      PointMenu[1 + ((b + m + 2 * p) % Len(PointMenu))]]]]

----------------------------------------------------------------------------
(* State                                                                   *)

VARIABLES
    \* Radix2DitParallel: the three twiddle caches (key |-> table)
    twiddles, coset_twiddles, inverse_twiddles,
    \* the workload of this engine: a coefficient matrix, its evaluations over the
    \* subgroup, added_bits and shift
    dft_args,
    \* the call in progress or last completed: "none", "dft_batch", "coset_lde_batch"
    dft_op,
    \* where coset_lde_batch stands: "idle" or "cosets" (inside the loop of line 171)
    dft_pc,
    \* coset_lde_batch's buffer mat.values (with its reserved capacity) and coset_idx
    dft_buf, dft_coset_idx,
    \* the value the last completed call returned
    dft_ret

dftVars == <<twiddles, coset_twiddles, inverse_twiddles, dft_args, dft_op, dft_pc,
             dft_buf, dft_coset_idx, dft_ret>>

VARIABLES
    \* the FriConfig of the PCS: log_blowup and num_queries
    pcs_fri,
    \* the batches of this run (PcsBatch), in commit order
    pcs_input,
    \* what commit returned per batch: [commitment, data]
    committed,
    \* the calls made to the MMCS, the DFT engine, the challenger and the FRI
    \* prover, in the order they were made: [fn, batch, arg], arg being
    \* <<polynomial, added_bits, shift>> for dft.coset_lde_batch, <<matrices>> for
    \* mmcs.commit, <<index>> for mmcs.open_batch, and for fri.prove the number of
    \* (batch, matrix, point) openings reduced before it
    calls,
    \* where open_multi_batches stands: "idle", "reduce", "prove", "open_batch", "done"
    open_pc,
    \* its locals
    alpha, cached_alpha_pows, all_opened_values, reduced_openings, num_reduced,
    fri_proof, query_indices, input_openings,
    \* its loop positions: the next (batch, matrix, point) and the next (query, batch)
    open_k, open_i,
    \* the arguments and the result of the last verify_multi_batches
    verify_args, verify_result,
    \* the last get_cached_powers: its arguments, the cache it was handed and the
    \* slice it returned
    powers_call

pcsVars == <<pcs_fri, pcs_input, committed, calls, open_pc, alpha, cached_alpha_pows,
             all_opened_values, reduced_openings, num_reduced, fri_proof, query_indices,
             input_openings, open_k, open_i, verify_args, verify_result, powers_call>>

\* circle bit-reversal: vectors of 2^bits values, bits <= MaxBitrevBits, value i
\* being base + step * i, base <= MaxBitrevBase, step <= MaxBitrevStep
MaxBitrevBits == 4
MaxBitrevBase == 3
MaxBitrevStep == 3

\* circle folding: vectors of 2^log_n evaluations, log_n <= MaxFoldLogN, extended
\* by 2^log_blowup, log_blowup <= MaxFoldLogBlowup, from MaxFoldSeed + 1 seeds
MaxFoldLogN == 5
MaxFoldLogBlowup == 2
MaxFoldSeed == 1

\* the coefficients in the circle basis of the polynomial the evaluations determine;
\* the last one is not zero
CircleCoeffs(log_n, seed) ==
    Vec([i \in 0..(Pow2(log_n) - 1) |-> MExp(3 + seed, i + 1)])

\* a vector of no particular form
AnyVector(len, seed) ==
    Vec([i \in 0..(len - 1) |-> MAdd(MExp(5 + seed, i + 1), i * i)])

\* the challenges drawn
Betas == {0, 3, CircleP - 1}

VARIABLES
    \* the vector being folded: [kind, log_n, log_blowup, seed]; kind "lde" is the
    \* circle-bit-reversed low-degree extension of 2^log_n evaluations, kind "any"
    \* a vector of 2^log_n values of no particular form
    fold_input,
    \* the current vector, indexed from 0, and its length
    fold_evals, fold_len,
    \* how many folds were applied to it, and the last one: [fn, beta]
    fold_count, fold_last,
    \* a fold_row on a row of the current vector, until its value is taken:
    \* [index, log_height, beta, value]
    fold_row_ret,
    \* the argument of circle_bitrev_permute, a vector indexed from 0, and what it
    \* returned
    bitrev_xs, bitrev_ret

circleVars == <<fold_input, fold_evals, fold_len, fold_count, fold_last, fold_row_ret,
                bitrev_xs, bitrev_ret>>

\* the calls of one engine followed step by step: at most MaxEngCalls of them
MaxEngCalls == 2

\* the calls tried: the transform, the height of the matrix, added_bits, and the
\* seed that gives the width, the values, the shift and the spare capacity
EngineMenu ==
    << [op |-> "dft_batch", height |-> 1, added_bits |-> 0, seed |-> 0],
       [op |-> "dft_batch", height |-> 2, added_bits |-> 0, seed |-> 1],
       [op |-> "dft_batch", height |-> 8, added_bits |-> 0, seed |-> 1],
       [op |-> "dft_batch", height |-> 16, added_bits |-> 0, seed |-> 0],
       [op |-> "dft_batch", height |-> 0, added_bits |-> 0, seed |-> 0],
       [op |-> "dft_batch", height |-> 6, added_bits |-> 0, seed |-> 1],
       [op |-> "coset_lde_batch", height |-> 4, added_bits |-> 2, seed |-> 0],
       [op |-> "coset_lde_batch", height |-> 4, added_bits |-> 2, seed |-> 1],
       [op |-> "coset_lde_batch", height |-> 4, added_bits |-> 1, seed |-> 0],
       [op |-> "coset_lde_batch", height |-> 8, added_bits |-> 1, seed |-> 1],
       [op |-> "coset_lde_batch", height |-> 2, added_bits |-> 0, seed |-> 0],
       [op |-> "coset_lde_batch", height |-> 3, added_bits |-> 1, seed |-> 0],
       [op |-> "coset_lde_batch", height |-> 0, added_bits |-> 2, seed |-> 1] >>

\* the matrix handed to call c, and the capacity of its vector: seed 1 comes with
\* room for as many elements again
EngineMat(c) ==
    Mat(SeedWidth(c.seed), c.height,
        Vec([e \in 0..(SeedWidth(c.seed) * c.height - 1) |-> SeedValue(c.seed, e)]))
EngineCapacity(c) == SeedWidth(c.seed) * c.height * (1 + c.seed)

VARIABLES
    \* how many calls were made on the engine
    eng_calls,
    \* the caches whose RefCell is exclusively borrowed (a RefMut of it is alive)
    borrows,
    \* per cache, how often the table of a key was computed: key |-> count
    computed,
    \* the three caches as they were when the call in progress was made
    eng_before,
    \* mat.values of the call in progress: its capacity and its length
    dft_cap, dft_len,
    \* how many of the capacity assertions (lines 164 and 202) were passed
    cap_checks,
    \* per chunk of the extended buffer, the cosets whose copy_from wrote it
    chunk_writes,
    \* the chunk coset_dft is working on
    dft_chunk,
    \* the halves of the butterfly network run by the call in progress:
    \* [fn, block_rows, layers]
    dft_layers

engVars == <<eng_calls, borrows, computed, eng_before, dft_cap, dft_len, cap_checks,
             chunk_writes, dft_chunk, dft_layers>>

\* no call is followed step by step
EngineUnused ==
    /\ eng_calls = 0
    /\ borrows = {}
    /\ computed = [twiddles |-> << >>, inverse_twiddles |-> << >>, coset_twiddles |-> << >>]
    /\ eng_before = << >>
    /\ dft_cap = 0
    /\ dft_len = 0
    /\ cap_checks = 0
    /\ chunk_writes = << >>
    /\ dft_chunk = 0
    /\ dft_layers = << >>

vars == <<dftVars, pcsVars, circleVars, engVars>>

NoValue == << >>

----------------------------------------------------------------------------
(* The engine: Radix2DitParallel::default(), then any number of calls      *)

\* no PCS is built on the engine
PcsUnused ==
    /\ pcs_fri = NoValue
    /\ pcs_input = NoValue
    /\ committed = << >>
    /\ calls = << >>
    /\ open_pc = "idle"
    /\ alpha = NoValue
    /\ cached_alpha_pows = NoValue
    /\ all_opened_values = NoValue
    /\ reduced_openings = NoValue
    /\ num_reduced = NoValue
    /\ fri_proof = NoValue
    /\ query_indices = NoValue
    /\ input_openings = NoValue
    /\ open_k = 0
    /\ open_i = 0
    /\ verify_args = NoValue
    /\ verify_result = "none"
    /\ powers_call = NoValue

\* nothing is being permuted
BitrevUnused ==
    /\ bitrev_xs = NoValue
    /\ bitrev_ret = NoValue

\* nothing is being folded
FoldUnused ==
    /\ fold_input = NoValue
    /\ fold_evals = NoValue
    /\ fold_len = 0
    /\ fold_count = 0
    /\ fold_last = NoValue
    /\ fold_row_ret = NoValue

CircleUnused == FoldUnused /\ BitrevUnused

\* no transform was asked of the engine
DftUnused ==
    /\ twiddles = << >>
    /\ coset_twiddles = << >>
    /\ inverse_twiddles = << >>
    /\ dft_args = NoValue
    /\ dft_op = "none"
    /\ dft_pc = "idle"
    /\ dft_buf = NoValue
    /\ dft_coset_idx = 0
    /\ dft_ret = NoValue

InitDft ==
    /\ twiddles = << >>
    /\ coset_twiddles = << >>
    /\ inverse_twiddles = << >>
    /\ \E log_n \in 0..MaxLogN, added_bits \in 0..MaxAddedBits, seed \in 0..MaxSeed :
          dft_args = Workload(log_n, added_bits, seed)
    /\ dft_op = "none"
    /\ dft_pc = "idle"
    /\ dft_buf = NoValue
    /\ dft_coset_idx = 0
    /\ dft_ret = NoValue
    /\ PcsUnused
    /\ EngineUnused
    /\ CircleUnused

\* dft_batch(coeffs), lines 102-123
DftBatch ==
    /\ dft_pc = "idle"
    /\ LET r == dft_batch(twiddles, dft_args.coeffs)
       IN /\ twiddles' = r.twiddles
          /\ dft_ret' = r.ret
    /\ dft_op' = "dft_batch"
    /\ UNCHANGED <<coset_twiddles, inverse_twiddles, dft_args, dft_pc, dft_buf, dft_coset_idx>>
    /\ UNCHANGED <<pcsVars, circleVars, engVars>>

\* coset_lde_batch(evals, added_bits, shift), lines 132-169: up to the loop
LdeBegin ==
    /\ dft_pc = "idle"
    /\ LET r == LdeCoefficients(inverse_twiddles, dft_args.evals, dft_args.added_bits)
       IN /\ inverse_twiddles' = r.inverse_twiddles
          /\ dft_buf' = r.values
    /\ dft_op' = "coset_lde_batch"
    /\ dft_pc' = "cosets"
    /\ dft_coset_idx' = 1
    /\ dft_ret' = NoValue
    /\ UNCHANGED <<twiddles, coset_twiddles, dft_args>>
    /\ UNCHANGED <<pcsVars, circleVars, engVars>>

\* one iteration of the loop of lines 171-196
LdeCoset ==
    /\ dft_pc = "cosets"
    /\ dft_coset_idx < Pow2(dft_args.added_bits)
    /\ LET m == dft_args.evals
           g_big == TwoAdicGenerator(Log2Strict(m.height) + dft_args.added_bits)
           r == CosetStep([coset_twiddles |-> coset_twiddles, values |-> dft_buf],
                          m.width, m.height, dft_args.added_bits, dft_args.shift,
                          g_big, dft_coset_idx)
       IN /\ coset_twiddles' = r.coset_twiddles
          /\ dft_buf' = r.values
    /\ dft_coset_idx' = dft_coset_idx + 1
    /\ UNCHANGED <<twiddles, inverse_twiddles, dft_args, dft_op, dft_pc, dft_ret>>
    /\ UNCHANGED <<pcsVars, circleVars, engVars>>

\* lines 198-205: the first coset, set_len, return
LdeFinish ==
    /\ dft_pc = "cosets"
    /\ dft_coset_idx >= Pow2(dft_args.added_bits)
    /\ LET m == dft_args.evals
           r == LdeFirstCoset([coset_twiddles |-> coset_twiddles, values |-> dft_buf],
                              m.width, m.height, dft_args.added_bits, dft_args.shift)
       IN /\ coset_twiddles' = r.coset_twiddles
          /\ dft_ret' = r.ret
    /\ dft_pc' = "idle"
    /\ dft_buf' = NoValue
    /\ dft_coset_idx' = 0
    /\ UNCHANGED <<twiddles, inverse_twiddles, dft_args, dft_op>>
    /\ UNCHANGED <<pcsVars, circleVars, engVars>>

NextDft == DftBatch \/ LdeBegin \/ LdeCoset \/ LdeFinish

SpecDft == InitDft /\ [][NextDft]_vars

----------------------------------------------------------------------------
(* TwoAdicFriPcs::new(fri, dft, mmcs) on a fresh engine: the batches are     *)
(* committed in order, opened together, and the opening is verified         *)

RECURSIVE MatTriples(_, _, _)
\* the (batch, matrix, point) iterations of the loops of lines 165-235 for
\* matrices 1..n of batch b, in the order the loops visit them
MatTriples(batch, b, n) ==
    IF n = 0 THEN << >>
    ELSE MatTriples(batch, b, n - 1)
            \o [p \in 1..Len(batch.points[n]) |-> [b |-> b, m |-> n, p |-> p]]

RECURSIVE Triples(_, _)
Triples(batches, n) ==
    IF n = 0 THEN << >>
    ELSE Triples(batches, n - 1) \o MatTriples(batches[n], n, Len(batches[n].polys))

\* the batches outside, the query indices inside
OpenBatchOrderByBatch(nq, nb) ==
    [i \in 1..(nq * nb) |-> [q |-> 1 + ((i - 1) % nq), b |-> 1 + ((i - 1) \div nq)]]

\* lines 242-255: the (query, batch) pairs in the order open_batch is called:
\* the query indices outside, the batches inside
OpenBatchOrder(nq, nb) ==
    [i \in 1..(nq * nb) |-> [q |-> 1 + ((i - 1) \div nb), b |-> 1 + ((i - 1) % nb)]]

\* the log-height of the tallest committed matrix
LogMaxHeight ==
    LET tallest == [b \in 1..Len(committed) |->
                       [height |-> MaxHeight(committed[b].data.matrices,
                                             Len(committed[b].data.matrices))]]
    IN Log2Strict(MaxHeight(tallest, Len(tallest)))

InitPcs ==
    /\ CircleUnused
    /\ EngineUnused
    /\ twiddles = << >>
    /\ coset_twiddles = << >>
    /\ inverse_twiddles = << >>
    /\ dft_args = NoValue
    /\ dft_op = "none"
    /\ dft_pc = "idle"
    /\ dft_buf = NoValue
    /\ dft_coset_idx = 0
    /\ dft_ret = NoValue
    /\ \E log_blowup \in 1..MaxLogBlowup, num_queries \in 1..MaxQueries :
          pcs_fri = [log_blowup |-> log_blowup, num_queries |-> num_queries]
    /\ \E nb \in 1..MaxBatches, first \in 1..Len(BatchShapes) :
          pcs_input = [b \in 1..nb |->
                          PcsBatch(b, BatchShapes[1 + ((first + b - 2) % Len(BatchShapes))])]
    /\ committed = << >>
    /\ calls = << >>
    /\ open_pc = "idle"
    /\ alpha = NoValue
    /\ cached_alpha_pows = NoValue
    /\ all_opened_values = NoValue
    /\ reduced_openings = NoValue
    /\ num_reduced = NoValue
    /\ fri_proof = NoValue
    /\ query_indices = NoValue
    /\ input_openings = NoValue
    /\ open_k = 0
    /\ open_i = 0
    /\ verify_args = NoValue
    /\ verify_result = "none"
    /\ powers_call = NoValue

\* the state after commit_shifted_batches on batch b, `r` being its LDEs and the
\* engine's caches after them: mmcs.commit(ldes), line 135
Committing(b, r, shift) ==
    /\ inverse_twiddles' = r.inverse_twiddles
    /\ coset_twiddles' = r.coset_twiddles
    /\ committed' = Append(committed, MmcsCommit(r.ldes))
    /\ calls' = calls
          \o [j \in 1..Len(r.ldes) |->
                 [fn |-> "dft.coset_lde_batch", batch |-> b,
                  arg |-> << j, pcs_fri.log_blowup, shift >>]]
          \o << [fn |-> "mmcs.commit", batch |-> b, arg |-> << Len(r.ldes) >>] >>

\* the evaluations handed to commit for batch b
Polynomials(b) == [j \in 1..Len(pcs_input[b].polys) |-> pcs_input[b].polys[j].evals]

\* commit_shifted_batches(polynomials, coset_shift), lines 116-136, on the next
\* batch (commit_batches, lines 78-80, when its coset_shift is one)
Commit ==
    /\ open_pc = "idle"
    /\ Len(committed) < Len(pcs_input)
    /\ Committing(Len(committed) + 1,
                  CommitLdes(inverse_twiddles, coset_twiddles, Polynomials(Len(committed) + 1),
                             pcs_fri.log_blowup,
                             CommitShift(pcs_input[Len(committed) + 1].coset_shift),
                             Len(pcs_input[Len(committed) + 1].polys)),
                  CommitShift(pcs_input[Len(committed) + 1].coset_shift))
    /\ UNCHANGED <<twiddles, dft_args, dft_op, dft_pc, dft_buf, dft_coset_idx, dft_ret>>
    /\ UNCHANGED <<circleVars, engVars>>
    /\ UNCHANGED <<pcs_fri, pcs_input, open_pc, alpha, cached_alpha_pows,
                   all_opened_values, reduced_openings, num_reduced, fri_proof,
                   query_indices, input_openings, open_k, open_i, verify_args,
                   verify_result, powers_call>>

\* open_multi_batches, lines 156-163: alpha is sampled, the locals are set up
OpenStart ==
    /\ open_pc = "idle"
    /\ Len(committed) = Len(pcs_input)
    /\ \E a \in Alphas : alpha' = a
    /\ calls' = Append(calls, [fn |-> "challenger.sample", batch |-> 0, arg |-> << >>])
    /\ cached_alpha_pows' = << 1 >>
    /\ all_opened_values' = << >>
    /\ reduced_openings' = [lh \in 0..31 |-> NoValue]
    /\ num_reduced' = [lh \in 0..31 |-> 0]
    /\ open_k' = 1
    /\ open_pc' = "reduce"
    /\ UNCHANGED <<circleVars, engVars, dftVars, pcs_fri, pcs_input, committed, fri_proof, query_indices,
                   input_openings, open_i, verify_args, verify_result, powers_call>>

\* push `x` on the last element of the list of lists `v`
PushInLast(v, x) == [v EXCEPT ![Len(v)] = Append(@, x)]

\* one iteration of the loop of line 197 over the points of a matrix; on the
\* first point of a matrix the part of lines 168-196 comes before it, and on the
\* first matrix of a batch the part of lines 166-167 before that
OpenReduce ==
    /\ open_pc = "reduce"
    /\ open_k <= Len(Triples(pcs_input, Len(pcs_input)))
    /\ LET t == Triples(pcs_input, Len(pcs_input))[open_k]
           mats == MmcsGetMatrices(committed[t.b].data)
           mat == mats[t.m]
           points_for_mat == pcs_input[t.b].points[t.m]
           point == points_for_mat[t.p]
           log_height == Log2Strict(mat.height)
           reduced_opening_for_log_height ==
               IF reduced_openings[log_height] = NoValue
               THEN Vec([r \in 0..(mat.height - 1) |-> 0])
               ELSE reduced_openings[log_height]
           subgroup == SubgroupBitRev(log_height, PcsCosetShift)
           inv_denoms == InvDenoms(subgroup, mat.height, points_for_mat)
           values == OpenedAt(mat, pcs_fri.log_blowup, point)
           cp == get_cached_powers(alpha, cached_alpha_pows, num_reduced[log_height],
                                   mat.width)
           for_round == IF t.m = 1 /\ t.p = 1 THEN Append(all_opened_values, << >>)
                        ELSE all_opened_values
           for_mat == IF t.p = 1 THEN PushInLast(for_round, << >>) ELSE for_round
       IN /\ calls' = IF t.m = 1 /\ t.p = 1
                      THEN Append(calls, [fn |-> "mmcs.get_matrices", batch |-> t.b,
                                          arg |-> << >>])
                      ELSE calls
          /\ cached_alpha_pows' = cp.cache
          /\ powers_call' = [power |-> alpha, start |-> num_reduced[log_height],
                              count |-> mat.width, before |-> cached_alpha_pows,
                              pows |-> cp.pows]
          /\ reduced_openings' =
                [reduced_openings EXCEPT ![log_height] =
                    ReduceOpenings(reduced_opening_for_log_height, mat, values, cp.pows,
                                   inv_denoms[t.p])]
          /\ num_reduced' = [num_reduced EXCEPT ![log_height] = @ + mat.width]
          /\ all_opened_values' =
                [for_mat EXCEPT ![Len(for_mat)] = PushInLast(@, values)]
    /\ open_k' = open_k + 1
    /\ UNCHANGED <<circleVars, engVars, dftVars, pcs_fri, pcs_input, committed, open_pc, alpha, fri_proof,
                   query_indices, input_openings, open_i, verify_args, verify_result>>

\* line 240: prover::prove(&self.fri, &reduced_openings, challenger). The FRI
\* prover is outside this crate's file: its proof is kept as the input it was
\* given, and the query indices it answers are any num_queries indices
OpenProve ==
    /\ open_pc = "reduce"
    /\ open_k > Len(Triples(pcs_input, Len(pcs_input)))
    /\ calls' = Append(calls, [fn |-> "fri.prove", batch |-> 0, arg |-> << open_k - 1 >>])
    /\ fri_proof' = [reduced_openings |-> reduced_openings]
    /\ \E qs \in [1..pcs_fri.num_queries -> {0, Pow2(LogMaxHeight) - 1}] :
          query_indices' = qs
    /\ input_openings' = [q \in 1..pcs_fri.num_queries |-> << >>]
    /\ open_i' = 1
    /\ open_pc' = "open_batch"
    /\ UNCHANGED <<circleVars, engVars, dftVars, pcs_fri, pcs_input, committed, alpha, cached_alpha_pows,
                   all_opened_values, reduced_openings, num_reduced, open_k,
                   verify_args, verify_result, powers_call>>

\* lines 242-255: one mmcs.open_batch(index, data)
OpenBatch ==
    /\ open_pc = "open_batch"
    /\ open_i <= pcs_fri.num_queries * Len(committed)
    /\ LET at == OpenBatchOrder(pcs_fri.num_queries, Len(committed))[open_i]
           index == query_indices[at.q]
       IN /\ calls' = Append(calls, [fn |-> "mmcs.open_batch", batch |-> at.b,
                                     arg |-> << index >>])
          /\ input_openings' =
                [input_openings EXCEPT ![at.q] =
                    Append(@, MmcsOpenBatch(index, committed[at.b].data))]
    /\ open_i' = open_i + 1
    /\ UNCHANGED <<circleVars, engVars, dftVars, pcs_fri, pcs_input, committed, open_pc, alpha,
                   cached_alpha_pows, all_opened_values, reduced_openings, num_reduced,
                   fri_proof, query_indices, open_k, verify_args, verify_result, powers_call>>

\* lines 257-264: (all_opened_values, TwoAdicFriPcsProof { fri_proof, input_openings })
OpenReturn ==
    /\ open_pc = "open_batch"
    /\ open_i > pcs_fri.num_queries * Len(committed)
    /\ open_pc' = "done"
    /\ UNCHANGED <<circleVars, engVars, dftVars, pcs_fri, pcs_input, committed, calls, alpha,
                   cached_alpha_pows, all_opened_values, reduced_openings, num_reduced,
                   fri_proof, query_indices, input_openings, open_k, open_i,
                   verify_args, verify_result, powers_call>>

\* what an honest verifier is handed after the opening
HonestArgs ==
    [commits_and_points |->
        [b \in 1..Len(committed) |->
            [commit |-> committed[b].commitment, points |-> pcs_input[b].points]],
     dims |-> [b \in 1..Len(committed) |->
                 [m \in 1..Len(committed[b].data.matrices) |->
                     [width |-> committed[b].data.matrices[m].width,
                      height |-> committed[b].data.matrices[m].height]]],
     values |-> all_opened_values,
     proof |-> [fri_proof |-> fri_proof, input_openings |-> input_openings]]

\* the ways the verifier's input is changed: not at all; the FRI proof replaced;
\* the commitment of one batch replaced by the commitment of other matrices; the
\* first opened value of one batch replaced
Tamperings ==
    {[kind |-> "none", b |-> 0], [kind |-> "proof", b |-> 0]}
    \cup {[kind |-> k, b |-> b] : k \in {"commit", "value"}, b \in 1..Len(pcs_input)}

Tamper(args, how) ==
    CASE how.kind = "none" -> args
      [] how.kind = "value" ->
            [args EXCEPT !.values[how.b][1][1][1] = Add(@, 1)]
      [] how.kind = "commit" ->
            [args EXCEPT !.commits_and_points[how.b].commit = MmcsCommit(<< >>).commitment]
      [] how.kind = "proof" ->
            [args EXCEPT !.proof.fri_proof = [reduced_openings |-> << >>]]

\* verify_multi_batches(commits_and_points, dims, values, proof, challenger),
\* lines 267-277, on the output of the opening or on a changed copy of it
Verify ==
    /\ open_pc = "done"
    /\ verify_result = "none"
    /\ \E how \in Tamperings :
          LET args == Tamper(HonestArgs, how)
          IN /\ verify_args' = args
             /\ verify_result' = verify_multi_batches(args.commits_and_points, args.dims,
                                                      args.values, args.proof, << >>)
    /\ UNCHANGED <<circleVars, engVars, dftVars, pcs_fri, pcs_input, committed, calls, open_pc, alpha,
                   cached_alpha_pows, all_opened_values, reduced_openings, num_reduced,
                   fri_proof, query_indices, input_openings, open_k, open_i, powers_call>>

NextPcs == Commit \/ OpenStart \/ OpenReduce \/ OpenProve \/ OpenBatch \/ OpenReturn
              \/ Verify

SpecPcs == InitPcs /\ [][NextPcs]_vars

\* get_cached_powers on its own: calls with any start <= MaxPowStart and any
\* count <= MaxPowCount, in any order, on a cache that starts as vec![1]
MaxPowStart == 3
MaxPowCount == 2

\* a power and the cache of line 158, outside any opening
PowersStart ==
    /\ open_pc = "idle"
    /\ Len(committed) = 0
    /\ \E a \in Alphas : alpha' = a
    /\ cached_alpha_pows' = << 1 >>
    /\ open_pc' = "powers"
    /\ UNCHANGED <<circleVars, engVars, dftVars, pcs_fri, pcs_input, committed, calls,
                   all_opened_values, reduced_openings, num_reduced, fri_proof,
                   query_indices, input_openings, open_k, open_i, verify_args,
                   verify_result, powers_call>>

\* get_cached_powers(alpha, &mut cache, start, count), lines 280-290
PowersCall ==
    /\ open_pc = "powers"
    /\ \E start \in 0..MaxPowStart, count \in 0..MaxPowCount :
          LET cp == get_cached_powers(alpha, cached_alpha_pows, start, count)
          IN /\ cached_alpha_pows' = cp.cache
             /\ powers_call' = [power |-> alpha, start |-> start, count |-> count,
                                 before |-> cached_alpha_pows, pows |-> cp.pows]
    /\ UNCHANGED <<circleVars, engVars, dftVars, pcs_fri, pcs_input, committed, calls,
                   open_pc, alpha, all_opened_values, reduced_openings, num_reduced,
                   fri_proof, query_indices, input_openings, open_k, open_i,
                   verify_args, verify_result>>

\* get_cached_powers as open_multi_batches calls it, and as any caller may
NextPowers == NextPcs \/ PowersStart \/ PowersCall

SpecPowers == InitPcs /\ [][NextPowers]_vars

----------------------------------------------------------------------------
(* Circle folding: a vector is folded until the claimed final length        *)

InitCircle ==
    /\ twiddles = << >>
    /\ coset_twiddles = << >>
    /\ inverse_twiddles = << >>
    /\ dft_args = NoValue
    /\ dft_op = "none"
    /\ dft_pc = "idle"
    /\ dft_buf = NoValue
    /\ dft_coset_idx = 0
    /\ dft_ret = NoValue
    /\ PcsUnused
    /\ EngineUnused
    /\ \E log_n \in 1..MaxFoldLogN, seed \in 0..MaxFoldSeed :
          \/ \E log_blowup \in 1..MaxFoldLogBlowup :
                /\ fold_input = [kind |-> "lde", log_n |-> log_n,
                                 log_blowup |-> log_blowup, seed |-> seed]
                /\ fold_len = Pow2(log_n + log_blowup)
                \* lines 211-227: lde, then circle_bitrev_permute
                /\ fold_evals = circle_bitrev_permute(
                                    CircleLde(CircleCoeffs(log_n, seed), log_n, log_blowup),
                                    Pow2(log_n + log_blowup))
          \/ /\ fold_input = [kind |-> "any", log_n |-> log_n, log_blowup |-> 0,
                               seed |-> seed]
             /\ fold_len = Pow2(log_n)
             /\ fold_evals = AnyVector(Pow2(log_n), seed)
    /\ fold_count = 0
    /\ fold_last = NoValue
    /\ fold_row_ret = NoValue
    /\ BitrevUnused

\* fold_bivariate(RowMajorMatrix::new(evals, 2), beta), line 229: the first fold
FoldBivariate ==
    /\ fold_count = 0
    /\ fold_row_ret = NoValue
    /\ \E beta \in Betas :
          /\ fold_evals' = fold_bivariate(fold_evals, fold_len \div 2, beta)
          /\ fold_last' = [fn |-> "fold_bivariate", beta |-> beta]
    /\ fold_len' = VecLen(fold_evals')
    /\ fold_count' = 1
    /\ fold_row_ret' = NoValue
    /\ UNCHANGED <<dftVars, engVars, pcsVars, fold_input, bitrev_xs, bitrev_ret>>

\* the folds that are left: lines 230-232 stop a low-degree extension after
\* log_n - 1 of them; any other vector is folded down to one value
FoldsLeft ==
    IF fold_input.kind = "lde"
    THEN fold_count >= 1 /\ fold_count < fold_input.log_n
    ELSE fold_len >= 2

\* fold_matrix(beta, RowMajorMatrix::new(evals, 2)), line 231
FoldMatrix ==
    /\ FoldsLeft
    /\ fold_row_ret = NoValue
    /\ \E beta \in Betas :
          /\ fold_evals' = fold_matrix(beta, fold_evals, fold_len \div 2)
          /\ fold_last' = [fn |-> "fold_matrix", beta |-> beta]
    /\ fold_len' = VecLen(fold_evals')
    /\ fold_count' = fold_count + 1
    /\ fold_row_ret' = NoValue
    /\ UNCHANGED <<dftVars, engVars, pcsVars, fold_input, bitrev_xs, bitrev_ret>>

\* fold_row(index, log_height, beta, row `index` of the current matrix)
FoldRow ==
    /\ FoldsLeft
    /\ fold_row_ret = NoValue
    /\ \E index \in 0..(fold_len \div 2 - 1), beta \in Betas :
          fold_row_ret' =
              [index |-> index, log_height |-> Log2Strict(fold_len \div 2),
               beta |-> beta,
               value |-> fold_row(index, Log2Strict(fold_len \div 2), beta,
                                  << fold_evals[2 * index], fold_evals[2 * index + 1] >>)]
    /\ UNCHANGED <<dftVars, engVars, pcsVars, fold_input, fold_evals, fold_len, fold_count, fold_last,
                   bitrev_xs, bitrev_ret>>

\* the caller takes the value of fold_row
FoldRowTaken ==
    /\ fold_row_ret # NoValue
    /\ fold_row_ret' = NoValue
    /\ UNCHANGED <<dftVars, engVars, pcsVars, fold_input, fold_evals, fold_len, fold_count, fold_last,
                   bitrev_xs, bitrev_ret>>

NextCircle == FoldBivariate \/ FoldMatrix \/ FoldRow \/ FoldRowTaken

SpecCircle == InitCircle /\ [][NextCircle]_vars

----------------------------------------------------------------------------
(* Circle bit-reversal of a vector                                         *)

InitBitrev ==
    /\ DftUnused
    /\ PcsUnused
    /\ EngineUnused
    /\ FoldUnused
    /\ \E bits \in 0..MaxBitrevBits, base \in 0..MaxBitrevBase, step \in 0..MaxBitrevStep :
          bitrev_xs = Vec([i \in 0..(Pow2(bits) - 1) |-> base + step * i])
    /\ bitrev_ret = NoValue

\* circle_bitrev_permute(xs), lines 136-141
CircleBitrevPermute ==
    /\ bitrev_xs # NoValue
    /\ bitrev_ret = NoValue
    /\ bitrev_ret' = Vec(circle_bitrev_permute(bitrev_xs, VecLen(bitrev_xs)))
    /\ UNCHANGED <<dftVars, engVars, pcsVars, fold_input, fold_evals, fold_len, fold_count, fold_last,
                   fold_row_ret, bitrev_xs>>

NextBitrev == CircleBitrevPermute

SpecBitrev == InitBitrev /\ [][NextBitrev]_vars

----------------------------------------------------------------------------
(* One engine, its calls followed step by step. dft_pc is the position of   *)
(* the call in progress: "log2_strict", "borrow", "par_dit_layer" and       *)
(* "par_dit_layer_rev" (inside that parallel phase), "return", "reserve",   *)
(* "assert_capacity", "cosets" (at the head of the loop of line 171),       *)
(* "coset_dft", "coset_dft:first_half" and "coset_dft:second_half" (inside  *)
(* that parallel phase of coset_dft), "set_len", or "panicked:..."         *)

InitEngine ==
    /\ DftUnused
    /\ PcsUnused
    /\ CircleUnused
    /\ EngineUnused

\* the locals w, h, log_h, mid, lde_elems of the call in progress
EngW == dft_args.mat.width
EngH == dft_args.mat.height
EngLogH == Log2Strict(EngH)
EngLdeElems == EngW * (EngH * Pow2(dft_args.added_bits))

\* a call is made: dft_batch(mat) or coset_lde_batch(mat, added_bits, shift)
EngineCall ==
    /\ dft_pc = "idle"
    /\ eng_calls < MaxEngCalls
    /\ \E n \in 1..Len(EngineMenu) :
          LET c == EngineMenu[n]
          IN /\ dft_op' = c.op
             /\ dft_args' = [mat |-> EngineMat(c), added_bits |-> c.added_bits,
                             shift |-> SeedShift(c.seed)]
             /\ dft_buf' = EngineMat(c).values
             /\ dft_len' = SeedWidth(c.seed) * c.height
             /\ dft_cap' = EngineCapacity(c)
    /\ dft_pc' = "log2_strict"
    /\ eng_calls' = eng_calls + 1
    /\ eng_before' = [twiddles |-> twiddles, inverse_twiddles |-> inverse_twiddles,
                      coset_twiddles |-> coset_twiddles]
    /\ dft_ret' = NoValue
    /\ dft_coset_idx' = 0
    /\ cap_checks' = 0
    /\ chunk_writes' = << >>
    /\ dft_chunk' = 0
    /\ dft_layers' = << >>
    /\ UNCHANGED <<twiddles, coset_twiddles, inverse_twiddles, borrows, computed>>
    /\ UNCHANGED <<pcsVars, circleVars>>

\* lines 103-104 and 132-135: log2_strict_usize(h) returns or panics
EngineLog2 ==
    /\ dft_pc = "log2_strict"
    /\ dft_pc' = IF HeightIsPowerOfTwo(EngH) THEN "borrow" ELSE "panicked:log2_strict"
    /\ UNCHANGED <<twiddles, coset_twiddles, inverse_twiddles, dft_args, dft_op, dft_buf,
                   dft_coset_idx, dft_ret, engVars>>
    /\ UNCHANGED <<pcsVars, circleVars>>

\* lines 107-115 of dft_batch: the forward cache is borrowed, the table fetched or
\* inserted, the matrix bit-reversed; the first parallel phase is entered
DftBorrow ==
    /\ dft_pc = "borrow"
    /\ dft_op = "dft_batch"
    /\ IF "twiddles" \in borrows
       THEN /\ dft_pc' = "panicked:borrow_mut"
            /\ UNCHANGED <<twiddles, borrows, computed, dft_buf>>
       ELSE /\ borrows' = borrows \cup {"twiddles"}
            /\ twiddles' = EntryOrInsert(twiddles, EngLogH, compute_twiddles(EngLogH))
            /\ computed' = [computed EXCEPT
                               !.twiddles = OrInsertWith(@, twiddles, EngLogH)]
            /\ dft_buf' = ReverseMatrixIndexBits(dft_buf, EngW, EngH)
            /\ dft_pc' = "par_dit_layer"
    /\ UNCHANGED <<coset_twiddles, inverse_twiddles, dft_args, dft_op, dft_coset_idx, dft_ret,
                   eng_calls, eng_before, dft_cap, dft_len, cap_checks, chunk_writes,
                   dft_chunk, dft_layers>>
    /\ UNCHANGED <<pcsVars, circleVars>>

\* lines 137-143 of coset_lde_batch: the same with the inverse cache
LdeBorrow ==
    /\ dft_pc = "borrow"
    /\ dft_op = "coset_lde_batch"
    /\ IF "inverse_twiddles" \in borrows
       THEN /\ dft_pc' = "panicked:borrow_mut"
            /\ UNCHANGED <<inverse_twiddles, borrows, computed, dft_buf>>
       ELSE /\ borrows' = borrows \cup {"inverse_twiddles"}
            /\ inverse_twiddles' = EntryOrInsert(inverse_twiddles, EngLogH,
                                                 compute_inverse_twiddles(EngLogH))
            /\ computed' = [computed EXCEPT
                               !.inverse_twiddles = OrInsertWith(@, inverse_twiddles, EngLogH)]
            /\ dft_buf' = ReverseMatrixIndexBits(dft_buf, EngW, EngH)
            /\ dft_pc' = "par_dit_layer"
    /\ UNCHANGED <<twiddles, coset_twiddles, dft_args, dft_op, dft_coset_idx, dft_ret,
                   eng_calls, eng_before, dft_cap, dft_len, cap_checks, chunk_writes,
                   dft_chunk, dft_layers>>
    /\ UNCHANGED <<pcsVars, circleVars>>

\* the VectorPair `twiddles` of the call in progress
EngTwiddles ==
    IF dft_op = "dft_batch" THEN twiddles[EngLogH] ELSE inverse_twiddles[EngLogH]

\* lines 116-119 and 144-147: par_dit_layer runs, then the matrix is bit-reversed
\* and the second parallel phase is entered
EngineFirstHalf ==
    /\ dft_pc = "par_dit_layer"
    /\ LET mid == DftMid(EngLogH)
       IN /\ dft_buf' = ReverseMatrixIndexBits(
                            ParDitLayer(dft_buf, EngW, EngH, mid, EngTwiddles.twiddles),
                            EngW, EngH)
          /\ dft_layers' = Append(dft_layers,
                                  [fn |-> "par_dit_layer", block_rows |-> Pow2(mid),
                                   layers |-> LayersRun(0, mid)])
    /\ dft_pc' = "par_dit_layer_rev"
    /\ UNCHANGED <<twiddles, coset_twiddles, inverse_twiddles, dft_args, dft_op,
                   dft_coset_idx, dft_ret, eng_calls, borrows, computed, eng_before,
                   dft_cap, dft_len, cap_checks, chunk_writes, dft_chunk>>
    /\ UNCHANGED <<pcsVars, circleVars>>

\* lines 120 and 148-151: par_dit_layer_rev runs; coset_lde_batch divides by h
EngineSecondHalf ==
    /\ dft_pc = "par_dit_layer_rev"
    /\ LET mid == DftMid(EngLogH)
           done == ParDitLayerRev(dft_buf, EngW, EngH, mid,
                                  EngTwiddles.bit_reversed_twiddles)
       IN /\ dft_buf' = IF dft_op = "dft_batch" THEN done
                        ELSE DivideByHeight(done, EngW, EngH)
          /\ dft_layers' = Append(dft_layers,
                                  [fn |-> "par_dit_layer_rev",
                                   block_rows |-> Pow2(EngLogH - mid),
                                   layers |-> LayersRun(mid, EngLogH)])
    /\ dft_pc' = IF dft_op = "dft_batch" THEN "return" ELSE "reserve"
    /\ UNCHANGED <<twiddles, coset_twiddles, inverse_twiddles, dft_args, dft_op,
                   dft_coset_idx, dft_ret, eng_calls, borrows, computed, eng_before,
                   dft_cap, dft_len, cap_checks, chunk_writes, dft_chunk>>
    /\ UNCHANGED <<pcsVars, circleVars>>

\* lines 122-123: the view is returned and twiddles_ref_mut dropped
DftReturn ==
    /\ dft_pc = "return"
    /\ dft_ret' = BitReversedMatrixView(Mat(EngW, EngH, dft_buf))
    /\ borrows' = borrows \ {"twiddles"}
    /\ dft_pc' = "idle"
    /\ UNCHANGED <<twiddles, coset_twiddles, inverse_twiddles, dft_args, dft_op, dft_buf,
                   dft_coset_idx, eng_calls, computed, eng_before, dft_cap, dft_len,
                   cap_checks, chunk_writes, dft_chunk, dft_layers>>
    /\ UNCHANGED <<pcsVars, circleVars>>

\* lines 153-155: reserve_exact; the slots past the length are not initialized
LdeReserve ==
    /\ dft_pc = "reserve"
    /\ dft_cap' = ReserveExact(dft_cap, dft_len, EngLdeElems - EngW * EngH)
    /\ dft_buf' = Vec([e \in 0..(dft_cap' - 1) |->
                          IF e < dft_len THEN dft_buf[e] ELSE Uninit])
    /\ dft_pc' = "assert_capacity"
    /\ UNCHANGED <<twiddles, coset_twiddles, inverse_twiddles, dft_args, dft_op,
                   dft_coset_idx, dft_ret, eng_calls, borrows, computed, eng_before,
                   dft_len, cap_checks, chunk_writes, dft_chunk, dft_layers>>
    /\ UNCHANGED <<pcsVars, circleVars>>

\* lines 157-169: the slices are formed and the spare capacity asserted
LdeAssertCapacity ==
    /\ dft_pc = "assert_capacity"
    /\ IF dft_cap - dft_len >= EngLdeElems - EngW * EngH
       THEN /\ dft_pc' = "cosets"
            /\ cap_checks' = 1
            /\ dft_coset_idx' = 1
       ELSE /\ dft_pc' = "panicked:capacity"
            /\ UNCHANGED <<cap_checks, dft_coset_idx>>
    /\ UNCHANGED <<twiddles, coset_twiddles, inverse_twiddles, dft_args, dft_op, dft_buf,
                   dft_ret, eng_calls, borrows, computed, eng_before, dft_cap, dft_len,
                   chunk_writes, dft_chunk, dft_layers>>
    /\ UNCHANGED <<pcsVars, circleVars>>

\* lines 171-193: the chunk of the next coset is filled by copy_from
LdeCopy ==
    /\ dft_pc = "cosets"
    /\ dft_coset_idx < Pow2(dft_args.added_bits)
    /\ LET chunk == LdeDestChunk(dft_coset_idx, dft_args.added_bits)
       IN /\ dft_buf' = CopyToChunk(dft_buf, EngW * EngH, chunk)
          /\ chunk_writes' =
                (chunk :> (IF chunk \in DOMAIN chunk_writes
                           THEN Append(chunk_writes[chunk], dft_coset_idx)
                           ELSE << dft_coset_idx >>)) @@ chunk_writes
          /\ dft_chunk' = chunk
    /\ dft_pc' = "coset_dft"
    /\ UNCHANGED <<twiddles, coset_twiddles, inverse_twiddles, dft_args, dft_op,
                   dft_coset_idx, dft_ret, eng_calls, borrows, computed, eng_before,
                   dft_cap, dft_len, cap_checks, dft_layers>>
    /\ UNCHANGED <<pcsVars, circleVars>>

\* line 199: after the loop, coset_dft is called on the first chunk
LdeFirstCosetCall ==
    /\ dft_pc = "cosets"
    /\ dft_coset_idx >= Pow2(dft_args.added_bits)
    /\ dft_chunk' = 0
    /\ dft_pc' = "coset_dft"
    /\ UNCHANGED <<twiddles, coset_twiddles, inverse_twiddles, dft_args, dft_op, dft_buf,
                   dft_coset_idx, dft_ret, eng_calls, borrows, computed, eng_before,
                   dft_cap, dft_len, cap_checks, chunk_writes, dft_layers>>
    /\ UNCHANGED <<pcsVars, circleVars>>

\* the shift coset_dft was called with: total_shift in the loop, shift after it
CosetDftShift ==
    IF dft_coset_idx < Pow2(dft_args.added_bits)
    THEN TotalShift(TwoAdicGenerator(EngLogH + dft_args.added_bits), dft_coset_idx,
                    dft_args.shift)
    ELSE dft_args.shift

\* lines 214-220 of coset_dft: the coset cache is borrowed, the table fetched or
\* inserted; the first parallel phase is entered
CosetDftBorrow ==
    /\ dft_pc = "coset_dft"
    /\ IF "coset_twiddles" \in borrows
       THEN /\ dft_pc' = "panicked:borrow_mut"
            /\ UNCHANGED <<coset_twiddles, borrows, computed>>
       ELSE LET key == << EngLogH, CosetDftShift >>
            IN /\ borrows' = borrows \cup {"coset_twiddles"}
               /\ coset_twiddles' =
                     EntryOrInsert(coset_twiddles, key,
                                   compute_coset_twiddles(EngLogH, CosetDftShift))
               /\ computed' = [computed EXCEPT
                                  !.coset_twiddles = OrInsertWith(@, coset_twiddles, key)]
               /\ dft_pc' = "coset_dft:first_half"
    /\ UNCHANGED <<twiddles, inverse_twiddles, dft_args, dft_op, dft_buf, dft_coset_idx,
                   dft_ret, eng_calls, eng_before, dft_cap, dft_len, cap_checks,
                   chunk_writes, dft_chunk, dft_layers>>
    /\ UNCHANGED <<pcsVars, circleVars>>

\* lines 224-235 of coset_dft: the first half runs on the chunk, which is then
\* bit-reversed; the second parallel phase is entered
CosetDftFirst ==
    /\ dft_pc = "coset_dft:first_half"
    /\ LET tw == coset_twiddles[<< EngLogH, CosetDftShift >>]
           m1 == CosetDftFirstHalf(RowChunk(dft_buf, EngW, EngH, dft_chunk),
                                   EngW, EngH, tw)
       IN dft_buf' = WriteChunk(dft_buf, EngW * EngH, dft_chunk,
                                ReverseMatrixIndexBits(m1, EngW, EngH))
    /\ dft_pc' = "coset_dft:second_half"
    /\ UNCHANGED <<twiddles, coset_twiddles, inverse_twiddles, dft_args, dft_op,
                   dft_coset_idx, dft_ret, engVars>>
    /\ UNCHANGED <<pcsVars, circleVars>>

\* lines 238-254 of coset_dft: the second half runs, coset_dft returns and its
\* twiddles_ref_mut is dropped
CosetDftSecond ==
    /\ dft_pc = "coset_dft:second_half"
    /\ LET tw == coset_twiddles[<< EngLogH, CosetDftShift >>]
       IN dft_buf' = WriteChunk(dft_buf, EngW * EngH, dft_chunk,
                                CosetDftSecondHalf(RowChunk(dft_buf, EngW, EngH, dft_chunk),
                                                   EngW, EngH, tw))
    /\ borrows' = borrows \ {"coset_twiddles"}
    /\ IF dft_coset_idx < Pow2(dft_args.added_bits)
       THEN dft_pc' = "cosets" /\ dft_coset_idx' = dft_coset_idx + 1
       ELSE dft_pc' = "set_len" /\ UNCHANGED dft_coset_idx
    /\ UNCHANGED <<twiddles, coset_twiddles, inverse_twiddles, dft_args, dft_op, dft_ret,
                   eng_calls, computed, eng_before, dft_cap, dft_len, cap_checks,
                   chunk_writes, dft_chunk, dft_layers>>
    /\ UNCHANGED <<pcsVars, circleVars>>

\* lines 201-206: the capacity is asserted again, the length set, the view
\* returned and twiddles_ref_mut dropped
LdeSetLen ==
    /\ dft_pc = "set_len"
    /\ IF dft_cap >= EngLdeElems
       THEN /\ cap_checks' = cap_checks + 1
            /\ dft_len' = EngLdeElems
            /\ dft_ret' = BitReversedMatrixView(
                              Mat(EngW, EngH * Pow2(dft_args.added_bits),
                                  Vec([e \in 0..(EngLdeElems - 1) |-> dft_buf[e]])))
            /\ borrows' = borrows \ {"inverse_twiddles"}
            /\ dft_pc' = "idle"
       ELSE /\ dft_pc' = "panicked:capacity"
            /\ UNCHANGED <<cap_checks, dft_len, dft_ret, borrows>>
    /\ UNCHANGED <<twiddles, coset_twiddles, inverse_twiddles, dft_args, dft_op, dft_buf,
                   dft_coset_idx, eng_calls, computed, eng_before, dft_cap, chunk_writes,
                   dft_chunk, dft_layers>>
    /\ UNCHANGED <<pcsVars, circleVars>>

NextEngine ==
    \/ EngineCall \/ EngineLog2 \/ DftBorrow \/ LdeBorrow \/ EngineFirstHalf
    \/ EngineSecondHalf \/ DftReturn \/ LdeReserve \/ LdeAssertCapacity \/ LdeCopy
    \/ LdeFirstCosetCall \/ CosetDftBorrow \/ CosetDftFirst \/ CosetDftSecond \/ LdeSetLen

SpecEngine == InitEngine /\ [][NextEngine]_vars

----------------------------------------------------------------------------
(* The transforms against naive evaluation                                 *)

\* a call of `op` has returned and its value is in dft_ret
Returned(op) == dft_pc = "idle" /\ dft_op = op /\ dft_ret # NoValue

\* column c of the workload's coefficient matrix, evaluated at x
DirectEval(c, x) ==
    EvalPoly(dft_args.coeffs.values, dft_args.coeffs.width, c, 0, dft_args.coeffs.height, x)

\* C7 as stated: dft_batch keeps the dimensions and row i of the value it returns
\* is the evaluation of each column at w^bitrev(i), w the generator of order h.
Orig_C7 ==
    Returned("dft_batch") =>
        LET m == dft_args.coeffs
            k == Log2Strict(m.height)
        IN /\ dft_ret.inner.width = m.width
           /\ dft_ret.inner.height = m.height
           /\ \A i \in 0..(m.height - 1) : \A c \in 0..(m.width - 1) :
                 ViewGet(dft_ret, i, c)
                     = dft_args.evals.values[ReverseBitsLen(i, k) * m.width + c]

\* C7, amended: dft_batch keeps the dimensions; the buffer it leaves is bit-reversed
\* (buffer row i is the evaluation at w^bitrev(i)) and is returned wrapped in a
\* bit-reversing view, so that row i of the returned value is the evaluation at w^i;
\* bit_reverse_rows() on the returned value gives the bit-reversed buffer.
Thm_C7 ==
    Returned("dft_batch") =>
        LET m == dft_args.coeffs
            k == Log2Strict(m.height)
            buffer == ViewBitReverseRows(dft_ret)
        IN /\ buffer.width = m.width
           /\ buffer.height = m.height
           /\ \A i \in 0..(m.height - 1) : \A c \in 0..(m.width - 1) :
                 /\ ViewGet(dft_ret, i, c) = dft_args.evals.values[i * m.width + c]
                 /\ buffer.values[i * m.width + c]
                        = dft_args.evals.values[ReverseBitsLen(i, k) * m.width + c]

\* a dft_batch of a two-column matrix of height 64 has returned
Wit_C7 ==
    /\ Returned("dft_batch")
    /\ dft_args.coeffs.height = 64
    /\ dft_args.coeffs.width = 2

\* C8: coset_lde_batch of the evaluations of a degree < h polynomial batch over the
\* subgroup returns a matrix of the same width and height h * 2^added_bits whose
\* row i is the direct evaluation of that batch at shift * g_big^i (every coset j,
\* rows i = j mod 2^added_bits, included).
Thm_C8 ==
    Returned("coset_lde_batch") =>
        LET m == dft_args.evals
            big == m.height * Pow2(dft_args.added_bits)
            g_big == TwoAdicGenerator(Log2Strict(big))
        IN /\ dft_ret.inner.width = m.width
           /\ dft_ret.inner.height = big
           /\ \A i \in 0..(big - 1) : \A c \in 0..(m.width - 1) :
                 ViewGet(dft_ret, i, c) = DirectEval(c, Mul(dft_args.shift, Exp(g_big, i)))

\* a coset_lde_batch with log_n = 6 and added_bits = 3 has returned, on an engine
\* that had been used before (its forward cache is filled)
Wit_C8 ==
    /\ Returned("coset_lde_batch")
    /\ dft_args.evals.height = 64
    /\ dft_args.added_bits = 3
    /\ dft_args.evals.width = 2
    /\ twiddles # << >>

----------------------------------------------------------------------------
(* The PCS against the polynomials it was given                             *)

\* the (batch, matrix, point) openings of this run, in loop order
AllTriples == Triples(pcs_input, Len(pcs_input))

Range(f) == {f[k] : k \in DOMAIN f}

\* the polynomial behind column c of matrix m of batch b, at x: its input is
\* taken to lie on coset_shift * H, so it is the interpolant of the input over H
\* composed with x / coset_shift
RefEval(b, m, c, x) ==
    LET coeffs == pcs_input[b].polys[m].coeffs
    IN EvalPoly(coeffs.values, coeffs.width, c - 1, 0, coeffs.height,
                Div(x, pcs_input[b].coset_shift))

\* the point of the committed domain that row i of a committed matrix of
\* log-height log_height stands for
DomainPoint(log_height, i) ==
    Mul(PcsCosetShift, Exp(TwoAdicGenerator(log_height), ReverseBitsLen(i, log_height)))

\* the verifier was run on something other than what the opening produced
Tampered == verify_result # "none" /\ verify_args # HonestArgs

\* C1 as stated: verify_multi_batches never answers Ok when an opened value, a
\* commitment or the proof differs from what the prover produced.
Orig_C1 == Tampered => verify_result # "Ok"

\* C2: verify_multi_batches answers Ok on the commitments, points, opened values
\* and proof of an honest commit and opening, whatever the shapes of the batches.
Thm_C2 ==
    (verify_result # "none" /\ verify_args = HonestArgs) => verify_result = "Ok"

\* an honest opening of two batches, matrices of two heights among them, verified
Wit_C2 ==
    /\ verify_result = "Ok"
    /\ verify_args = HonestArgs
    /\ Len(pcs_input) = 2
    /\ \E m \in 1..Len(committed[1].data.matrices) :
          committed[1].data.matrices[m].height # committed[2].data.matrices[1].height

\* C3: the opening returns one list per batch, per matrix and per point, in input
\* order, with one entry per column; every committed column (height h * 2^log_blowup)
\* agrees on the committed coset with a polynomial of degree < h, its first h rows
\* being the evaluations over generator * <g_h> in bit-reversed order; and the
\* entry of column c is that polynomial at the requested point, a point outside
\* the domain.
Thm_C3 ==
    open_pc = "done" =>
        /\ Len(all_opened_values) = Len(pcs_input)
        /\ \A b \in 1..Len(pcs_input) :
              /\ Len(all_opened_values[b]) = Len(pcs_input[b].polys)
              /\ \A m \in 1..Len(pcs_input[b].polys) :
                    Len(all_opened_values[b][m]) = Len(pcs_input[b].points[m])
        /\ \A t \in Range(AllTriples) :
              LET mat == committed[t.b].data.matrices[t.m]
                  h == pcs_input[t.b].polys[t.m].coeffs.height
                  z == pcs_input[t.b].points[t.m][t.p]
                  opened == all_opened_values[t.b][t.m][t.p]
              IN /\ OutOfDomain(z)
                 /\ Len(opened) = mat.width
                 /\ mat.height = h * Pow2(pcs_fri.log_blowup)
                 /\ \A c \in 1..mat.width :
                       /\ opened[c] = RefEval(t.b, t.m, c, z)
                       /\ \A i \in 0..(mat.height - 1) :
                             mat.values[i * mat.width + (c - 1)]
                                 = RefEval(t.b, t.m, c,
                                           DomainPoint(Log2Strict(mat.height), i))
                       /\ \A i \in 0..(h - 1) :
                             mat.values[i * mat.width + (c - 1)]
                                 = RefEval(t.b, t.m, c,
                                           Mul(Generator,
                                               Exp(TwoAdicGenerator(Log2Strict(h)),
                                                   ReverseBitsLen(i, Log2Strict(h)))))

\* two batches opened, one of them committed on a shifted coset and holding a
\* matrix opened at two points
Wit_C3 ==
    /\ open_pc = "done"
    /\ Len(pcs_input) = 2
    /\ \E b \in 1..2 : /\ pcs_input[b].coset_shift = 3
                       /\ Len(all_opened_values[b][2]) = 2

----------------------------------------------------------------------------
(* The reduced openings in closed form                                      *)

\* the committed matrix of opening t, and its log-height
TripleMat(t) == committed[t.b].data.matrices[t.m]
TripleLogHeight(t) == Log2Strict(TripleMat(t).height)

RECURSIVE ColumnsReduced(_, _, _)
\* the columns reduced into the bucket of log_height by openings 1..n of ts:
\* every (matrix, point) pair counts the width of its matrix
ColumnsReduced(ts, log_height, n) ==
    IF n = 0 THEN 0
    ELSE ColumnsReduced(ts, log_height, n - 1)
            + (IF TripleLogHeight(ts[n]) = log_height
               THEN TripleMat(ts[n]).width ELSE 0)

\* sum over columns of alpha^(first + c) * (p_c(x_i) - p_c(z)) / (x_i - z), for
\* opening t and row i
OpeningTerm(t, i, first) ==
    LET mat == TripleMat(t)
        z == pcs_input[t.b].points[t.m][t.p]
        inv_denom == Inv(Sub(DomainPoint(Log2Strict(mat.height), i), z))
    IN SumTo([c \in 0..(mat.width - 1) |->
                 Mul(Exp(alpha, first + c),
                     Mul(Sub(mat.values[i * mat.width + c], RefEval(t.b, t.m, c + 1, z)),
                         inv_denom))],
             mat.width)

RECURSIVE ClosedForm(_, _, _, _)
\* the reduced opening of row i of the bucket of log_height after openings 1..n,
\* the exponents running on over every (matrix, point) pair
ClosedForm(ts, log_height, i, n) ==
    IF n = 0 THEN 0
    ELSE Add(ClosedForm(ts, log_height, i, n - 1),
             IF TripleLogHeight(ts[n]) = log_height
             THEN OpeningTerm(ts[n], i, ColumnsReduced(ts, log_height, n - 1))
             ELSE 0)

\* the openings reduced so far
Reduced == IF open_pc = "idle" THEN 0 ELSE open_k - 1

\* C4: the vector accumulated for a log-height (the one handed to the FRI
\* prover) is, at every row x in the bit-reversed order of the stored matrix,
\* the sum of alpha^k * (f_k(x) - f_k(z)) / (x - z) over the columns reduced into
\* that height, in loop order: k starts at 0 for the height and goes up by one
\* with every column reduced (num_reduced counts them; a matrix opened at a
\* second point takes the next run of exponents); for two columns p, q at one
\* point it is (p(x)-p(z))/(x-z) + alpha*(q(x)-q(z))/(x-z); a height no matrix
\* has keeps None, and heights never mix.
Thm_C4 ==
    open_pc # "idle" =>
        LET ts == AllTriples
        IN \A lh \in 0..31 :
              /\ num_reduced[lh] = ColumnsReduced(ts, lh, Reduced)
              /\ (reduced_openings[lh] = NoValue)
                    <=> (\A k \in 1..Reduced : TripleLogHeight(ts[k]) # lh)
              /\ reduced_openings[lh] # NoValue =>
                    /\ DOMAIN reduced_openings[lh] = 0..(Pow2(lh) - 1)
                    /\ \A i \in 0..(Pow2(lh) - 1) :
                          reduced_openings[lh][i] = ClosedForm(ts, lh, i, Reduced)
                    /\ \A k \in 1..Reduced :
                          (TripleLogHeight(ts[k]) = lh /\ num_reduced[lh] = 2
                              /\ TripleMat(ts[k]).width = 2) =>
                             \A i \in 0..(Pow2(lh) - 1) :
                                LET z == pcs_input[ts[k].b].points[ts[k].m][ts[k].p]
                                    x == DomainPoint(lh, i)
                                    p == TripleMat(ts[k]).values[2 * i]
                                    q == TripleMat(ts[k]).values[2 * i + 1]
                                IN reduced_openings[lh][i]
                                      = Add(Div(Sub(p, RefEval(ts[k].b, ts[k].m, 1, z)),
                                                Sub(x, z)),
                                            Mul(alpha,
                                                Div(Sub(q, RefEval(ts[k].b, ts[k].m, 2, z)),
                                                    Sub(x, z))))

\* all openings reduced and handed to the prover: one height took the columns of
\* three (matrix, point) pairs, another only the two columns of one matrix
Wit_C4 ==
    /\ open_pc = "done"
    /\ fri_proof = [reduced_openings |-> reduced_openings]
    /\ \E lh \in 0..31 : num_reduced[lh] >= 5
    /\ \E lh \in 0..31 : num_reduced[lh] = 2 /\ alpha = 5

----------------------------------------------------------------------------
(* The calls the PCS makes                                                  *)

\* the calls of commit for batch b, and the calls of the opening
CallsOfCommit(b) ==
    SelectSeq(calls, LAMBDA c : c.batch = b /\ c.fn \in {"dft.coset_lde_batch", "mmcs.commit"})
CallsOfOpen ==
    SelectSeq(calls, LAMBDA c : c.fn \notin {"dft.coset_lde_batch", "mmcs.commit"})

\* C5: committing n polynomials makes one coset_lde_batch call per polynomial, in
\* input order, with added_bits = log_blowup and shift = generator / coset_shift,
\* then exactly one mmcs.commit with the n results in input order; matrix j has
\* the width of polynomial j and height h_j * 2^log_blowup, its row i is the
\* polynomial batch at shift * g_big^bitrev(i); the pair returned is that call's.
Thm_C5 ==
    \A b \in 1..Len(committed) :
        LET polys == pcs_input[b].polys
            n == Len(polys)
            shift == Mul(Generator, Inv(pcs_input[b].coset_shift))
            ms == committed[b].data.matrices
        IN /\ CallsOfCommit(b)
                = [j \in 1..n |-> [fn |-> "dft.coset_lde_batch", batch |-> b,
                                   arg |-> << j, pcs_fri.log_blowup, shift >>]]
                  \o << [fn |-> "mmcs.commit", batch |-> b, arg |-> << n >>] >>
           /\ committed[b] = MmcsCommit(ms)
           /\ Len(ms) = n
           /\ \A j \in 1..n :
                 LET coeffs == polys[j].coeffs
                     big == coeffs.height * Pow2(pcs_fri.log_blowup)
                     log_big == Log2Strict(big)
                     g_big == TwoAdicGenerator(log_big)
                 IN /\ ms[j].width = coeffs.width
                    /\ ms[j].height = big
                    /\ \A i \in 0..(big - 1) : \A c \in 0..(coeffs.width - 1) :
                          ms[j].values[i * coeffs.width + c]
                              = EvalPoly(coeffs.values, coeffs.width, c, 0, coeffs.height,
                                         Mul(shift, Exp(g_big, ReverseBitsLen(i, log_big))))

\* two batches committed: one on a shifted coset, one of matrices of two heights
Wit_C5 ==
    /\ Len(committed) = 2
    /\ \E b \in 1..2 : pcs_input[b].coset_shift = 3
    /\ \E b \in 1..2 :
          /\ Len(committed[b].data.matrices) = 2
          /\ committed[b].data.matrices[1].height # committed[b].data.matrices[2].height

\* C6: in open_multi_batches the first call is challenger.sample and the opening
\* makes no other; fri.prove is called exactly once, after every (batch, matrix,
\* point) has been reduced, on the vectors so accumulated; then mmcs.open_batch
\* is called once per query index and batch, the indices outside and the batches
\* inside, and input_openings holds (query indices x batches) entries.
Thm_C6 ==
    open_pc # "idle" =>
        LET opens == CallsOfOpen
            nq == pcs_fri.num_queries
            nb == Len(committed)
            proves == {k \in 1..Len(opens) : opens[k].fn = "fri.prove"}
            batches == SelectSeq(opens, LAMBDA c : c.fn = "mmcs.open_batch")
        IN /\ SubSeq(calls, Len(calls) - Len(opens) + 1, Len(calls)) = opens
           /\ opens[1].fn = "challenger.sample"
           /\ \A k \in 2..Len(opens) : opens[k].fn # "challenger.sample"
           /\ Cardinality(proves) = (IF open_pc = "reduce" THEN 0 ELSE 1)
           /\ \A k \in proves :
                 /\ opens[k].arg = << Len(AllTriples) >>
                 /\ fri_proof = [reduced_openings |-> reduced_openings]
                 /\ SubSeq(opens, 2, k - 1)
                       = [b \in 1..nb |-> [fn |-> "mmcs.get_matrices", batch |-> b,
                                           arg |-> << >>]]
                 /\ \A j \in (k + 1)..Len(opens) : opens[j].fn = "mmcs.open_batch"
           /\ Len(batches) = (CASE open_pc = "reduce" -> 0
                                [] open_pc = "open_batch" -> open_i - 1
                                [] open_pc = "done" -> nq * nb)
           /\ \A k \in 1..Len(batches) :
                 batches[k] = [fn |-> "mmcs.open_batch", batch |-> 1 + ((k - 1) % nb),
                               arg |-> << query_indices[1 + ((k - 1) \div nb)] >>]
           /\ open_pc = "done" =>
                 /\ Len(input_openings) = nq
                 /\ \A q \in 1..nq :
                       /\ Len(input_openings[q]) = nb
                       /\ \A b \in 1..nb :
                             input_openings[q][b]
                                 = MmcsOpenBatch(query_indices[q], committed[b].data)

\* an opening of two batches at two different query indices has returned
Wit_C6 ==
    /\ open_pc = "done"
    /\ pcs_fri.num_queries = 2
    /\ Len(committed) = 2
    /\ query_indices[1] # query_indices[2]

----------------------------------------------------------------------------
(* Circle folding                                                          *)

\* the low-degree extension was folded once by fold_bivariate and log_n - 1 times
\* by fold_matrix
FoldedDown == fold_input.kind = "lde" /\ fold_count = fold_input.log_n

\* C9: the circle-bit-reversed low-degree extension (blow-up 2^log_blowup) of 2^log_n
\* evaluations, folded by fold_bivariate once and by fold_matrix log_n - 1 times with
\* any challenges, has length exactly 2^log_blowup and all of its entries are equal
Thm_C9 ==
    (fold_input # NoValue /\ FoldedDown) =>
        /\ fold_len = Pow2(fold_input.log_blowup)
        /\ DOMAIN fold_evals = 0..(Pow2(fold_input.log_blowup) - 1)
        /\ \A i \in DOMAIN fold_evals : fold_evals[i] = fold_evals[0]

\* C9 happens: 2^5 evaluations extended by 2^2 were folded down to four values
Wit_C9 ==
    /\ fold_input # NoValue
    /\ FoldedDown
    /\ fold_input.log_n = MaxFoldLogN
    /\ fold_input.log_blowup = MaxFoldLogBlowup
    /\ fold_len = Pow2(MaxFoldLogBlowup)

\* C10: fold_row(i, log_height, beta, row i of m) is element i of fold_matrix(beta, m),
\* for every matrix m of 2^log_height rows of 2, every row i and every challenge
Thm_C10 ==
    fold_row_ret # NoValue =>
        /\ fold_row_ret.log_height = Log2Strict(fold_len \div 2)
        /\ fold_row_ret.value =
              fold_matrix(fold_row_ret.beta, fold_evals, fold_len \div 2)[fold_row_ret.index]

\* C10 happens: the last row of a matrix of at least four rows, of no particular
\* form, was folded with a challenge that is not zero
Wit_C10 ==
    /\ fold_row_ret # NoValue
    /\ fold_input.kind = "any"
    /\ fold_row_ret.log_height >= 2
    /\ fold_row_ret.index = fold_len \div 2 - 1
    /\ fold_row_ret.beta # 0

\* twiddle i of a fold of h rows: the inverse of the imaginary (first fold) or
\* real (later folds) coordinate of the point that circle bit-reversal puts at i
\* among the first h points of the standard domain of log-size log2(h) + 1 or + 2
TwiddleOfRow(bivariate, h, i) ==
    LET domain == CircleDomainStandard(Log2Strict(h) + (IF bivariate THEN 1 ELSE 2))
        point == CirclePoint(domain, circle_bitrev_idx(i, Log2Strict(h)))
    IN MInv(IF bivariate THEN point.imag ELSE point.real)

\* ((lo + hi) + beta * (lo - hi) * t) / 2
FoldFormula(lo, hi, beta, t) ==
    MMul(MAdd(MAdd(lo, hi), MMul(MMul(beta, MSub(lo, hi)), t)), MInv(2))

\* C11: a fold of a vector of 2h values with challenge beta returns exactly h values,
\* value i being ((lo_i + hi_i) + beta * (lo_i - hi_i) * t_i) / 2 for row i =
\* (lo_i, hi_i), with t_i the twiddle of row i that fold_bivariate, respectively
\* fold_matrix, supplies: no row is dropped
Thm_C11 ==
    [][fold_count' = fold_count + 1 =>
          LET h == fold_len \div 2
          IN /\ fold_len' = h
             /\ DOMAIN fold_evals' = 0..(h - 1)
             /\ \A i \in 0..(h - 1) :
                   fold_evals'[i] =
                       FoldFormula(fold_evals[2 * i], fold_evals[2 * i + 1],
                                   fold_last'.beta,
                                   TwiddleOfRow(fold_last'.fn = "fold_bivariate", h, i))]_vars

\* C11 happens: fold_bivariate and then fold_matrix, with a challenge that is not
\* zero, folded a vector of no particular form, at least four values being left
Wit_C11 ==
    /\ fold_input # NoValue
    /\ fold_input.kind = "any"
    /\ fold_count = 2
    /\ fold_last.fn = "fold_matrix"
    /\ fold_last.beta # 0
    /\ fold_len >= 4
    /\ \E i \in DOMAIN fold_evals : fold_evals[i] # fold_evals[0]

----------------------------------------------------------------------------
(* Circle bit-reversal                                                     *)

\* the bits of x, bit 0 first
BitsOf(x, bits) == [k \in 0..(bits - 1) |-> (x \div Pow2(k)) % 2]

RECURSIVE FromBits(_, _)
FromBits(b, bits) ==
    IF bits = 0 THEN 0 ELSE b[bits - 1] * Pow2(bits - 1) + FromBits(b, bits - 1)

\* the bits below position i flipped
FlipLow(b, i) == [k \in DOMAIN b |-> IF k < i THEN 1 - b[k] ELSE b[k]]

RECURSIVE XorLowBits(_, _, _)
\* for bit positions i, i + 1, ..., from low to high: the low i bits are XORed with
\* all-ones whenever bit i is set
XorLowBits(b, i, bits) ==
    IF i >= bits THEN b
    ELSE XorLowBits(IF b[i] = 1 THEN FlipLow(b, i) ELSE b, i + 1, bits)

\* the index as the claim words it: bit-reversed over `bits` bits, then XORed
CircleBitrevIdxByBits(idx, bits) ==
    LET b == BitsOf(idx, bits)
        reversed == [k \in 0..(bits - 1) |-> b[bits - 1 - k]]
    IN FromBits(XorLowBits(reversed, 0, bits), bits)

\* 0, 1, ..., n - 1
Iota(n) == [i \in 0..(n - 1) |-> i]

\* C12: circle_bitrev_permute(xs)[i] = xs[circle_bitrev_idx(i, log2(len))], the index
\* being bit-reversed over `bits` bits and then, for bit positions from low to high,
\* its low i bits XORed with all-ones whenever bit i is set; so permute([0,1]) = [0,1],
\* permute([0,1,2,3]) = [0,3,1,2], permute([0..7]) = [0,7,3,4,1,6,2,5], and the
\* identity for every input of length 1 or 2
Thm_C12 ==
    bitrev_ret # NoValue =>
        LET n == VecLen(bitrev_xs)
            bits == Log2Strict(n)
        IN /\ DOMAIN bitrev_ret = 0..(n - 1)
           /\ \A i \in 0..(n - 1) :
                 /\ circle_bitrev_idx(i, bits) = CircleBitrevIdxByBits(i, bits)
                 /\ bitrev_ret[i] = bitrev_xs[CircleBitrevIdxByBits(i, bits)]
           /\ n <= 2 => bitrev_ret = bitrev_xs
           /\ (n = 2 /\ bitrev_xs = Iota(n)) =>
                 bitrev_ret = [i \in 0..1 |-> << 0, 1 >>[i + 1]]
           /\ (n = 4 /\ bitrev_xs = Iota(n)) =>
                 bitrev_ret = [i \in 0..3 |-> << 0, 3, 1, 2 >>[i + 1]]
           /\ (n = 8 /\ bitrev_xs = Iota(n)) =>
                 bitrev_ret = [i \in 0..7 |-> << 0, 7, 3, 4, 1, 6, 2, 5 >>[i + 1]]

\* C12 happens: 0, 1, ..., 7 was permuted
Wit_C12 ==
    /\ bitrev_ret # NoValue
    /\ bitrev_xs = Iota(8)
    /\ bitrev_ret # bitrev_xs

----------------------------------------------------------------------------
(* The engine step by step                                                 *)

\* a call followed step by step has returned
EngineReturned == eng_calls >= 1 /\ dft_pc = "idle" /\ dft_ret # NoValue

\* the steps add up to the transforms: what a call returns and leaves in the caches
\* is what dft_batch, respectively coset_lde_batch, gives on the caches it found
EngineAgrees ==
    EngineReturned =>
        IF dft_op = "dft_batch"
        THEN LET r == dft_batch(eng_before.twiddles, dft_args.mat)
             IN dft_ret = r.ret /\ twiddles = r.twiddles
        ELSE LET r == coset_lde_batch(eng_before.inverse_twiddles,
                                      eng_before.coset_twiddles, dft_args.mat,
                                      dft_args.added_bits, dft_args.shift)
             IN /\ dft_ret = r.ret
                /\ inverse_twiddles = r.inverse_twiddles
                /\ coset_twiddles = r.coset_twiddles

\* C13: a call of dft_batch or coset_lde_batch with a matrix whose height is not a
\* power of two (0 included) aborts at once: no cache is borrowed or filled, no row
\* is transformed, nothing is returned, and the three caches are as they were
Thm_C13 ==
    /\ (eng_calls >= 1 /\ ~IsPowerOfTwo(EngH)) =>
          /\ dft_pc \in {"log2_strict", "panicked:log2_strict"}
          /\ borrows = {}
          /\ twiddles = eng_before.twiddles
          /\ inverse_twiddles = eng_before.inverse_twiddles
          /\ coset_twiddles = eng_before.coset_twiddles
          /\ dft_buf = dft_args.mat.values
          /\ dft_layers = << >>
          /\ dft_ret = NoValue
    /\ dft_pc = "panicked:log2_strict" => ~IsPowerOfTwo(EngH)

\* C13 happens: on an engine whose caches are filled, coset_lde_batch was called
\* with a matrix of height 0 and has aborted
Wit_C13 ==
    /\ dft_pc = "panicked:log2_strict"
    /\ dft_op = "coset_lde_batch"
    /\ EngH = 0
    /\ inverse_twiddles # << >>
    /\ coset_twiddles # << >>

\* the keys of the coset cache that the call in progress asks for:
\* (log_h, g_big^j * shift) for j in 0 .. 2^added_bits - 1
CosetKeysOf(args) ==
    LET log_h == Log2Strict(args.mat.height)
    IN {<< log_h, TotalShift(TwoAdicGenerator(log_h + args.added_bits), j, args.shift) >> :
           j \in 0..(Pow2(args.added_bits) - 1)}
LdeCosetKeys == CosetKeysOf(dft_args)

\* every table present was computed exactly once and is the table of its key
ComputedOnce ==
    /\ DOMAIN computed.twiddles = DOMAIN twiddles
    /\ DOMAIN computed.inverse_twiddles = DOMAIN inverse_twiddles
    /\ DOMAIN computed.coset_twiddles = DOMAIN coset_twiddles
    /\ \A k \in DOMAIN twiddles :
          computed.twiddles[k] = 1 /\ twiddles[k] = compute_twiddles(k)
    /\ \A k \in DOMAIN inverse_twiddles :
          computed.inverse_twiddles[k] = 1
          /\ inverse_twiddles[k] = compute_inverse_twiddles(k)
    /\ \A k \in DOMAIN coset_twiddles :
          computed.coset_twiddles[k] = 1
          /\ coset_twiddles[k] = compute_coset_twiddles(k[1], k[2])

\* a call that has returned has left the tables of its keys in the caches
KeysInserted ==
    EngineReturned =>
        IF dft_op = "dft_batch" THEN EngLogH \in DOMAIN twiddles
        ELSE EngLogH \in DOMAIN inverse_twiddles /\ LdeCosetKeys \subseteq DOMAIN coset_twiddles

\* no step changes or removes an entry of a cache
EntriesKept ==
    /\ \A k \in DOMAIN twiddles : k \in DOMAIN twiddles' /\ twiddles'[k] = twiddles[k]
    /\ \A k \in DOMAIN inverse_twiddles :
          k \in DOMAIN inverse_twiddles' /\ inverse_twiddles'[k] = inverse_twiddles[k]
    /\ \A k \in DOMAIN coset_twiddles :
          k \in DOMAIN coset_twiddles' /\ coset_twiddles'[k] = coset_twiddles[k]

\* dft_batch inserts only into the forward cache, coset_lde_batch only into the
\* inverse cache (key log_h) and the coset cache (the keys of its cosets)
CachesIndependent ==
    /\ dft_op' = "dft_batch" =>
          /\ inverse_twiddles' = inverse_twiddles
          /\ coset_twiddles' = coset_twiddles
          /\ DOMAIN twiddles' \subseteq
                DOMAIN twiddles \cup {Log2Strict(dft_args'.mat.height)}
    /\ dft_op' = "coset_lde_batch" =>
          /\ twiddles' = twiddles
          /\ DOMAIN inverse_twiddles' \subseteq
                DOMAIN inverse_twiddles \cup {Log2Strict(dft_args'.mat.height)}
          /\ DOMAIN coset_twiddles' \subseteq
                DOMAIN coset_twiddles \cup CosetKeysOf(dft_args')

\* C14: over the calls of dft_batch and coset_lde_batch on one engine, the table of
\* each key of each cache is computed at most once, an entry once inserted is never
\* changed or removed, dft_batch inserts only into the forward cache and
\* coset_lde_batch only into the inverse cache (key log_h) and the coset cache (keys
\* (log_h, g_big^j * shift), every j below 2^added_bits), and no cache is borrowed
\* exclusively while an exclusive borrow of it is alive
Thm_C14 ==
    /\ [](ComputedOnce /\ KeysInserted /\ dft_pc # "panicked:borrow_mut")
    /\ [][EntriesKept /\ CachesIndependent]_vars

\* C14 happens: a second coset_lde_batch has returned that found the inverse table
\* and some, not all, of its coset tables in the caches
Wit_C14 ==
    /\ EngineReturned
    /\ eng_calls = 2
    /\ dft_op = "coset_lde_batch"
    /\ EngLogH \in DOMAIN eng_before.inverse_twiddles
    /\ \E k \in LdeCosetKeys : k \in DOMAIN eng_before.coset_twiddles
    /\ \E k \in LdeCosetKeys : k \notin DOMAIN eng_before.coset_twiddles

\* control is inside a parallel row-chunk phase
InParallelPhase ==
    dft_pc \in {"par_dit_layer", "par_dit_layer_rev",
                "coset_dft:first_half", "coset_dft:second_half"}

\* coset_lde_batch has invoked coset_dft, which has not returned
InCosetDft == dft_pc \in {"coset_dft", "coset_dft:first_half", "coset_dft:second_half"}

\* C15: no exclusive borrow of a twiddle cache is alive while a parallel row-chunk
\* phase of dft_batch, coset_lde_batch or coset_dft runs, and coset_lde_batch does
\* not hold its borrow while it invokes coset_dft
Orig_C15 ==
    /\ InParallelPhase => borrows = {}
    /\ InCosetDft => "inverse_twiddles" \notin borrows

\* entry i of a cache of powers is power^i (entry i of the Vec is cache[i + 1])
PowersOf(cache, power) == \A i \in 1..Len(cache) : cache[i] = Exp(power, i - 1)

\* C16: starting from cache = [1], after any sequence of get_cached_powers calls
\* with the same alpha, cache[i] = alpha^i for every i < len(cache); a call
\* never changes or removes an existing entry, it only appends when
\* len(cache) < start + count (afterwards len = max(old len, start + count)),
\* and it returns exactly [alpha^start, ..., alpha^(start+count-1)]; in
\* open_multi_batches the start passed for a matrix is the number of columns
\* already reduced into its log-height bucket, and the count is its width.
Thm_C16 ==
    /\ cached_alpha_pows # NoValue =>
          /\ Len(cached_alpha_pows) >= 1
          /\ PowersOf(cached_alpha_pows, alpha)
    /\ powers_call # NoValue =>
          /\ powers_call.power = alpha
          /\ Len(cached_alpha_pows) =
                IF Len(powers_call.before) >= powers_call.start + powers_call.count
                THEN Len(powers_call.before)
                ELSE powers_call.start + powers_call.count
          /\ SubSeq(cached_alpha_pows, 1, Len(powers_call.before)) = powers_call.before
          /\ powers_call.pows =
                [i \in 1..powers_call.count |-> Exp(alpha, powers_call.start + i - 1)]
          /\ open_pc # "powers" =>
                LET t == AllTriples[open_k - 1]
                IN /\ powers_call.start =
                         ColumnsReduced(AllTriples, TripleLogHeight(t), open_k - 2)
                   /\ powers_call.count = TripleMat(t).width

\* C16 happens: a call on a cache that earlier calls have grown, starting past
\* entry 0 and appending to it; and, in an opening, a matrix whose bucket
\* already holds columns
Wit_C16 ==
    /\ powers_call # NoValue
    /\ powers_call.start >= 1
    /\ Len(powers_call.before) > 1
    /\ Len(powers_call.before) < powers_call.start + powers_call.count
    /\ Len(cached_alpha_pows) > Len(powers_call.before)

\* coset_lde_batch is past the assertion of line 164, or has returned
LdePastAssert ==
    /\ dft_op = "coset_lde_batch"
    /\ \/ dft_pc \in {"cosets", "coset_dft", "coset_dft:first_half",
                      "coset_dft:second_half", "set_len"}
       \/ EngineReturned

\* the cosets whose chunk dest.copy_from has filled: 1 .. LdeCopied
LdeCopied ==
    IF dft_pc = "cosets" THEN dft_coset_idx - 1
    ELSE IF dft_coset_idx < Pow2(dft_args.added_bits) THEN dft_coset_idx
    ELSE Pow2(dft_args.added_bits) - 1

\* the coefficients of the call in progress: the inverse transform of its matrix
\* divided by h, as lines 132-151 leave it
LdeCoeffs == LdeCoefficients(eng_before.inverse_twiddles, dft_args.mat, 0).values

\* coset_dft has not been called on the first chunk yet
FirstCosetUntransformed ==
    \/ dft_pc \in {"cosets", "coset_dft"}
    \/ /\ dft_pc \in {"coset_dft:first_half", "coset_dft:second_half"}
       /\ dft_coset_idx < Pow2(dft_args.added_bits)

\* C17: in coset_lde_batch no uninitialized or stale data is read. The capacity
\* is asserted before the first write past the length; the chunk of coset j,
\* chunk reverse_bits(j, added_bits), j = 1 .. 2^added_bits - 1, is written
\* exactly once, by the copy of coset j, with the whole coefficient buffer of the
\* first chunk while that is untransformed, and before coset_dft reads it; the
\* first chunk is transformed only after all the copies; the length becomes
\* w * h * 2^added_bits only after every chunk was written and the capacity
\* asserted a second time.
Thm_C17 ==
    /\ (dft_op = "coset_lde_batch" /\ ~LdePastAssert) =>
          /\ chunk_writes = << >>
          /\ cap_checks = 0
    /\ dft_pc # "panicked:capacity"
    /\ LdePastAssert =>
          LET w == EngW
              h == EngH
              n == Pow2(dft_args.added_bits)
          IN /\ cap_checks >= 1
             /\ dft_cap >= EngLdeElems
             /\ \A e \in 0..(EngLdeElems - 1) : e \in DOMAIN dft_buf
             /\ DOMAIN chunk_writes =
                   {ReverseBitsLen(j, dft_args.added_bits) : j \in 1..LdeCopied}
             /\ \A j \in 1..LdeCopied :
                   chunk_writes[ReverseBitsLen(j, dft_args.added_bits)] = << j >>
             /\ DOMAIN chunk_writes \subseteq 1..(n - 1)
             /\ \A c \in 1..(n - 1) :
                   c \notin DOMAIN chunk_writes =>
                      \A e \in 0..(w * h - 1) : dft_buf[c * (w * h) + e] = Uninit
             /\ FirstCosetUntransformed =>
                   \A e \in 0..(w * h - 1) : dft_buf[e] = LdeCoeffs[e]
             /\ (dft_pc = "coset_dft" /\ dft_chunk # 0) =>
                   /\ dft_chunk = ReverseBitsLen(dft_coset_idx, dft_args.added_bits)
                   /\ \A e \in 0..(w * h - 1) :
                         dft_buf[dft_chunk * (w * h) + e] = LdeCoeffs[e]
             /\ dft_pc \in {"coset_dft", "coset_dft:first_half", "coset_dft:second_half"} =>
                   /\ \A e \in 0..(w * h - 1) : dft_buf[dft_chunk * (w * h) + e] # Uninit
                   /\ dft_chunk = 0 => DOMAIN chunk_writes = 1..(n - 1)
                   /\ dft_chunk = 0 <=> ~(dft_coset_idx < n)
             /\ IF EngineReturned
                THEN /\ dft_len = w * h * n
                     /\ cap_checks = 2
                     /\ DOMAIN chunk_writes = 1..(n - 1)
                     /\ \A e \in 0..(w * h * n - 1) : dft_ret.inner.values[e] # Uninit
                ELSE /\ dft_len = w * h
                     /\ cap_checks = 1

\* C17 happens: a coset_lde_batch with four cosets whose vector had no spare
\* capacity has returned, and one that had some spare capacity
Wit_C17 ==
    /\ EngineReturned
    /\ dft_op = "coset_lde_batch"
    /\ dft_args.added_bits = 2
    /\ chunk_writes = (1 :> << 2 >>) @@ (2 :> << 1 >>) @@ (3 :> << 3 >>)
    /\ dft_cap = EngLdeElems
    /\ dft_len = 4 * (EngW * EngH)

\* the smallest integer that is at least k / 2
CeilHalf(k) == (k + 1) \div 2

\* layers 0 .. floor(k/2) - 1 of the DIT network, each run over the whole matrix
FirstHalfNetwork(vals, w, h, tw) ==
    ParDitLayerChunk(vals, w, h, Log2Strict(h), 0, Log2Strict(h) \div 2, tw)

\* layers floor(k/2) .. k - 1 of the reversed network, each run over the whole matrix
SecondHalfNetwork(vals, w, h, tw_rev) ==
    ParDitLayerRevChunk(vals, w, h, Log2Strict(h), Log2Strict(h) \div 2,
                        Log2Strict(h) \div 2, 0, tw_rev)

\* the matrix with every row outside block t (blocks of `rows` rows) set to zero
OnlyBlock(vals, w, rows, t) ==
    Vec([e \in DOMAIN vals |-> IF (e \div w) \div rows = t THEN vals[e] ELSE 0])

\* block t of what `net` makes of the matrix does not depend on the other blocks
BlocksIndependent(net(_), vals, w, h, rows) ==
    \A t \in 0..((h \div rows) - 1) :
        RowChunk(net(vals), w, rows, t) = RowChunk(net(OnlyBlock(vals, w, rows, t)), w, rows, t)

\* dft_batch is about to run its first half, its second half
AtFirstHalf == dft_op = "dft_batch" /\ dft_pc = "par_dit_layer"
AtSecondHalf == dft_op = "dft_batch" /\ dft_pc = "par_dit_layer_rev"

\* both halves of a dft_batch have run
HalvesRun == dft_op = "dft_batch" /\ Len(dft_layers) = 2

\* C18 as stated: for height 2^k the first half of dft_batch applies floor(k/2)
\* layers on row blocks of 2^floor(k/2) rows and the second half applies
\* k - ceil(k/2) layers.
Orig_C18 ==
    HalvesRun =>
        /\ dft_layers[1].layers = EngLogH \div 2
        /\ dft_layers[1].block_rows = Pow2(EngLogH \div 2)
        /\ dft_layers[2].layers = EngLogH - CeilHalf(EngLogH)

\* C18, amended: for height 2^k the first half of dft_batch applies the
\* floor(k/2) layers 0 .. floor(k/2) - 1 of the DIT network on row blocks of
\* 2^floor(k/2) rows, and the second half, after the bit-reversal, applies the
\* remaining k - floor(k/2) = ceil(k/2) layers of the reversed network on row
\* blocks of 2^ceil(k/2) rows, k layers in all; each half gives what its layers
\* give on the whole matrix, and a block of its result depends on no row of
\* another block.
Thm_C18 ==
    /\ [](HalvesRun =>
            /\ dft_layers[1] = [fn |-> "par_dit_layer",
                                block_rows |-> Pow2(EngLogH \div 2),
                                layers |-> EngLogH \div 2]
            /\ dft_layers[2] = [fn |-> "par_dit_layer_rev",
                                block_rows |-> Pow2(CeilHalf(EngLogH)),
                                layers |-> CeilHalf(EngLogH)]
            /\ dft_layers[1].layers + dft_layers[2].layers = EngLogH)
    /\ [](AtFirstHalf =>
            LET tw == twiddles[EngLogH].twiddles
                net(v) == FirstHalfNetwork(v, EngW, EngH, tw)
            IN BlocksIndependent(net, dft_buf, EngW, EngH, Pow2(EngLogH \div 2)))
    /\ [](AtSecondHalf =>
            LET tw == twiddles[EngLogH].bit_reversed_twiddles
                net(v) == SecondHalfNetwork(v, EngW, EngH, tw)
            IN BlocksIndependent(net, dft_buf, EngW, EngH, Pow2(CeilHalf(EngLogH))))
    /\ [][AtFirstHalf =>
            dft_buf' = ReverseMatrixIndexBits(
                           FirstHalfNetwork(dft_buf, EngW, EngH, twiddles[EngLogH].twiddles),
                           EngW, EngH)]_vars
    /\ [][AtSecondHalf =>
            dft_buf' = SecondHalfNetwork(dft_buf, EngW, EngH,
                                         twiddles[EngLogH].bit_reversed_twiddles)]_vars

\* C18 happens: a dft_batch of height 8 (k = 3, odd) has run both halves, one
\* layer on blocks of 2 rows and then two layers on blocks of 4 rows
Wit_C18 ==
    /\ HalvesRun
    /\ EngineReturned
    /\ EngH = 8
    /\ dft_layers[1].layers = 1
    /\ dft_layers[2].layers = 2
    /\ dft_layers[2].block_rows = 4
====
